---- MODULE Spec2Model ----
(***************************************************************************)
(* Verification model of the autoregressive rollout engine                 *)
(* (src/ace_inference/core/stepper.py), the physics corrector              *)
(* (src/ace_inference/core/corrector.py), the ClimateData view             *)
(* (src/ace_inference/core/aggregator/climate_data.py), the metrics it     *)
(* uses (src/evaluation/metrics.py) and the variable packer                *)
(* (src/utilities/packer.py).                                              *)
(*                                                                         *)
(* Numbers are exact rationals <<n, d>> in lowest terms with d > 0; the    *)
(* non-finite floating point values are <<1, 0>> (+inf), <<-1, 0>> (-inf)  *)
(* and <<0, 0>> (NaN).  Tensors are records [shape, data] with the data in *)
(* row-major order.  Python dicts are insertion-ordered sequences of       *)
(* [k, v] records with pairwise different keys.                            *)
(***************************************************************************)
EXTENDS Integers, Sequences, FiniteSets, TLC

(***************************************************************************)
(* Bounds of the model                                                     *)
(***************************************************************************)
NLat == 2
NLon == 1
NSample == 1
MaxForwardSteps == 2

(***************************************************************************)
(* Exact arithmetic standing for torch's floating point operators          *)
(***************************************************************************)
Abs(x) == IF x < 0 THEN -x ELSE x

Sign(x) == IF x < 0 THEN -1 ELSE IF x > 0 THEN 1 ELSE 0

RECURSIVE GCD(_, _)
GCD(a, b) == IF b = 0 THEN a ELSE GCD(b, a % b)

Rat(n, d) ==
    IF d = 0 THEN <<Sign(n), 0>>
    ELSE LET g == GCD(Abs(n), Abs(d))
             s == IF d < 0 THEN -1 ELSE 1
         IN  <<s * (n \div g), s * (d \div g)>>

R(n) == <<n, 1>>

NaN == <<0, 0>>

IsNaN(a) == a = NaN

IsFinite(a) == a[2] # 0

IsZero(a) == a[1] = 0 /\ a[2] # 0

RNeg(a) == <<-a[1], a[2]>>

RAdd(a, b) ==
    IF IsFinite(a) /\ IsFinite(b)
    THEN LET g == GCD(a[2], b[2])
         IN  Rat(a[1] * (b[2] \div g) + b[1] * (a[2] \div g), (a[2] \div g) * b[2])
    ELSE IF IsNaN(a) \/ IsNaN(b) THEN NaN
    ELSE IF ~IsFinite(a) /\ ~IsFinite(b) THEN (IF a = b THEN a ELSE NaN)
    ELSE IF IsFinite(a) THEN b ELSE a

RSub(a, b) == RAdd(a, RNeg(b))

RMul(a, b) ==
    IF IsFinite(a) /\ IsFinite(b)
    THEN LET g1 == GCD(Abs(a[1]), b[2])
             g2 == GCD(Abs(b[1]), a[2])
         IN  Rat((a[1] \div g1) * (b[1] \div g2), (a[2] \div g2) * (b[2] \div g1))
    ELSE IF IsNaN(a) \/ IsNaN(b) \/ IsZero(a) \/ IsZero(b) THEN NaN
    ELSE <<Sign(a[1]) * Sign(b[1]), 0>>

RDiv(a, b) ==
    IF IsNaN(a) \/ IsNaN(b) THEN NaN
    ELSE IF ~IsFinite(b) THEN (IF IsFinite(a) THEN R(0) ELSE NaN)
    ELSE IF IsZero(b) THEN (IF IsZero(a) THEN NaN ELSE <<Sign(a[1]), 0>>)
    ELSE IF ~IsFinite(a) THEN <<Sign(a[1]) * Sign(b[1]), 0>>
    ELSE RMul(a, Rat(b[2], b[1]))

RECURSIVE RSum(_)
RSum(s) == IF s = <<>> THEN R(0) ELSE RAdd(Head(s), RSum(Tail(s)))

RECURSIVE Prod(_)
Prod(s) == IF s = <<>> THEN 1 ELSE Head(s) * Prod(Tail(s))


(***************************************************************************)
(* Tensors: [shape |-> <<d1, ..., dn>>, data |-> row-major sequence]       *)
(***************************************************************************)
\* a function over 1..n as the tuple of its values
Tuple(f) == f \o <<>>

Tensor(shape, data) == [shape |-> shape, data |-> Tuple(data)]

Scalar(x) == Tensor(<<>>, <<x>>)

Numel(shape) == Prod(shape)

\* the 1-based position of dimension dim as torch counts it (0-based, negative
\* from the end) in a tensor of n dimensions
NormDim(dim, n) == IF dim < 0 THEN dim + n + 1 ELSE dim + 1

\* the 0-based multi-index of the 0-based flat offset i
RECURSIVE Unravel(_, _)
Unravel(i, shape) ==
    IF shape = <<>> THEN <<>>
    ELSE LET rest == Numel(Tail(shape))
         IN  <<i \div rest>> \o Unravel(i % rest, Tail(shape))

RECURSIVE Ravel(_, _)
Ravel(idx, shape) ==
    IF shape = <<>> THEN 0
    ELSE Head(idx) * Numel(Tail(shape)) + Ravel(Tail(idx), Tail(shape))

At(t, idx) == t.data[Ravel(idx, t.shape) + 1]

Max(a, b) == IF a > b THEN a ELSE b

\* torch broadcasting: shapes are aligned at their last dimension
BroadcastShape(sa, sb) ==
    LET n == Max(Len(sa), Len(sb))
        da(k) == IF k > n - Len(sa) THEN sa[k - (n - Len(sa))] ELSE 1
        db(k) == IF k > n - Len(sb) THEN sb[k - (n - Len(sb))] ELSE 1
    IN  [k \in 1..n |-> Max(da(k), db(k))]

BroadcastIndex(idx, shape) ==
    LET off == Len(idx) - Len(shape)
    IN  [k \in 1..Len(shape) |-> IF shape[k] = 1 THEN 0 ELSE idx[k + off]]

Expand(t, shape) ==
    Tensor(shape, [i \in 1..Numel(shape) |->
                     At(t, BroadcastIndex(Unravel(i - 1, shape), t.shape))])

TBin(Op(_, _), a, b) ==
    LET shape == BroadcastShape(a.shape, b.shape)
    IN  Tensor(shape, [i \in 1..Numel(shape) |->
            LET idx == Unravel(i - 1, shape)
            IN  Op(At(a, BroadcastIndex(idx, a.shape)),
                   At(b, BroadcastIndex(idx, b.shape)))])

TAdd(a, b) == TBin(RAdd, a, b)

TSub(a, b) == TBin(RSub, a, b)

TMul(a, b) == TBin(RMul, a, b)

TDiv(a, b) == TBin(RDiv, a, b)

\* tensor.sum over the last n dimensions
SumLast(t, n) ==
    LET keep  == SubSeq(t.shape, 1, Len(t.shape) - n)
        inner == Numel(SubSeq(t.shape, Len(t.shape) - n + 1, Len(t.shape)))
    IN  Tensor(keep, [i \in 1..Numel(keep) |->
                        RSum([j \in 1..inner |-> t.data[(i - 1) * inner + j]])])

\* tensor.diff(dim=-1)
DiffLast(t) ==
    LET n     == Len(t.shape)
        L     == t.shape[n]
        shape == [t.shape EXCEPT ![n] = L - 1]
    IN  Tensor(shape, [i \in 1..Numel(shape) |->
            LET row == (i - 1) \div (L - 1)
                k   == (i - 1) % (L - 1)
            IN  RSub(t.data[row * L + k + 2], t.data[row * L + k + 1])])

\* tensor.unsqueeze(-1)
Unsqueeze(t) == Tensor(t.shape \o <<1>>, t.data)

\* tensor[..., None, None]
Unsqueeze2(t) == Tensor(t.shape \o <<1, 1>>, t.data)

InsertAt(s, p, x) == SubSeq(s, 1, p - 1) \o <<x>> \o SubSeq(s, p, Len(s))

RemoveAt(s, p) == SubSeq(s, 1, p - 1) \o SubSeq(s, p + 1, Len(s))

\* torch.stack(ts, dim): a new dimension of size Len(ts) at position dim
Stack(ts, dim) ==
    LET inner == ts[1].shape
        p     == NormDim(dim, Len(inner) + 1)
        shape == InsertAt(inner, p, Len(ts))
    IN  Tensor(shape, [i \in 1..Numel(shape) |->
            LET idx == Unravel(i - 1, shape)
            IN  At(ts[idx[p] + 1], RemoveAt(idx, p))])

\* tensor.select(dim, index): the slice at index, the dimension removed
Select(t, dim, index) ==
    LET p     == NormDim(dim, Len(t.shape))
        shape == RemoveAt(t.shape, p)
    IN  Tensor(shape, [i \in 1..Numel(shape) |->
            At(t, InsertAt(Unravel(i - 1, shape), p, index))])

(***************************************************************************)
(* Python dicts: insertion-ordered sequences of [k, v] with distinct keys  *)
(***************************************************************************)
Keys(d) == [i \in 1..Len(d) |-> d[i].k]

KeySet(d) == {d[i].k : i \in 1..Len(d)}

HasKey(d, k) == \E i \in 1..Len(d) : d[i].k = k

Get(d, k) == d[CHOOSE i \in 1..Len(d) : d[i].k = k].v

\* d[k] = v: an existing key keeps its position, a new key is appended
Put(d, k, v) ==
    IF HasKey(d, k)
    THEN Tuple([i \in 1..Len(d) |-> IF d[i].k = k THEN [k |-> k, v |-> v] ELSE d[i]])
    ELSE Append(d, [k |-> k, v |-> v])

\* equality of dicts as Python compares them: same keys, same values
DictEq(a, b) ==
    /\ KeySet(a) = KeySet(b)
    /\ \A k \in KeySet(a) : Get(a, k) = Get(b, k)

(***************************************************************************)
(* Strings                                                                 *)
(***************************************************************************)
StartsWith(s, prefix) ==
    Len(s) >= Len(prefix) /\ SubSeq(s, 1, Len(prefix)) = prefix

EndsWith(s, suffix) ==
    Len(s) >= Len(suffix) /\ SubSeq(s, Len(s) - Len(suffix) + 1, Len(s)) = suffix

\* the characters field names are written in, in code point order.  The last
\* one, ~, stands for U+0663 ARABIC-INDIC DIGIT THREE, which a string of this
\* module cannot hold: a decimal digit for str.isdigit and int, of value 3,
\* that [0-9] does not match, with no other case, and a code point above z
Alphabet == "0123456789ABCDEFGHIJKLMNOPQRSTUVWXYZ_abcdefghijklmnopqrstuvwxyz~"

\* the position of each character in the Alphabet
OrdTable ==
    [c \in {SubSeq(Alphabet, i, i) : i \in 1..Len(Alphabet)} |->
        CHOOSE i \in 1..Len(Alphabet) : SubSeq(Alphabet, i, i) = c]

Ord(c) == OrdTable[c]

\* a character [0-9] matches
IsDigitChar(c) == Ord(c) <= 10

\* a character str.isdigit holds of
IsUnicodeDigitChar(c) == IsDigitChar(c) \/ c = "~"

\* int(c)
DigitValue(c) == IF c = "~" THEN 3 ELSE Ord(c) - 1

IsUpperChar(c) == Ord(c) >= 11 /\ Ord(c) <= 36

LowerChar(c) == IF IsUpperChar(c) THEN SubSeq(Alphabet, Ord(c) + 27, Ord(c) + 27) ELSE c

RECURSIVE Lower(_)
Lower(s) ==
    IF Len(s) = 0 THEN ""
    ELSE LowerChar(SubSeq(s, 1, 1)) \o Lower(SubSeq(s, 2, Len(s)))

RECURSIVE StrLess(_, _)
StrLess(a, b) ==
    IF Len(b) = 0 THEN FALSE
    ELSE IF Len(a) = 0 THEN TRUE
    ELSE LET ca == Ord(SubSeq(a, 1, 1))
             cb == Ord(SubSeq(b, 1, 1))
         IN  IF ca # cb THEN ca < cb
             ELSE StrLess(SubSeq(a, 2, Len(a)), SubSeq(b, 2, Len(b)))

RECURSIVE ParseInt(_, _)
ParseInt(s, acc) ==
    IF Len(s) = 0 THEN acc
    ELSE ParseInt(SubSeq(s, 2, Len(s)), 10 * acc + DigitValue(SubSeq(s, 1, 1)))

(***************************************************************************)
(* natural_sort (climate_data.py)                                          *)
(***************************************************************************)
\* the length of the longest prefix of s made of digits (digit = TRUE) or of
\* non-digits (digit = FALSE)
RECURSIVE RunLength(_, _)
RunLength(s, digit) ==
    IF Len(s) = 0 \/ IsDigitChar(SubSeq(s, 1, 1)) # digit THEN 0
    ELSE 1 + RunLength(SubSeq(s, 2, Len(s)), digit)

\* re.split("([0-9]+)", item): text, digits, text, ..., text; the first and
\* the last piece are text and may be empty
RECURSIVE ReSplitDigits(_)
ReSplitDigits(item) ==
    LET n    == RunLength(item, FALSE)
        rest == SubSeq(item, n + 1, Len(item))
        m    == RunLength(rest, TRUE)
    IN  IF Len(rest) = 0 THEN <<item>>
        ELSE <<SubSeq(item, 1, n), SubSeq(rest, 1, m)>>
             \o ReSplitDigits(SubSeq(rest, m + 1, Len(rest)))

\* str.isdigit over the Alphabet: non-empty and decimal digits only
IsDigit(text) ==
    Len(text) > 0 /\ \A i \in 1..Len(text) : IsUnicodeDigitChar(SubSeq(text, i, i))

convert(text) ==
    IF IsDigit(text) THEN [int |-> ParseInt(text, 0)] ELSE [str |-> Lower(text)]

alphanum_key(item) ==
    LET parts == ReSplitDigits(item)
    IN  [i \in 1..Len(parts) |-> convert(parts[i])]

IsInt(x) == "int" \in DOMAIN x

\* Python's < on two elements of a key; comparing an int with a str is a TypeError
ElemTypeError(x, y) == IsInt(x) # IsInt(y)

ElemLess(x, y) == IF IsInt(x) THEN x.int < y.int ELSE StrLess(x.str, y.str)

\* Python's < on lists: decided at the first position where they differ
RECURSIVE KeyLess(_, _)
KeyLess(a, b) ==
    IF b = <<>> THEN FALSE
    ELSE IF a = <<>> THEN TRUE
    ELSE IF Head(a) = Head(b) THEN KeyLess(Tail(a), Tail(b))
    ELSE ElemLess(Head(a), Head(b))

RECURSIVE KeyTypeError(_, _)
KeyTypeError(a, b) ==
    IF a = <<>> \/ b = <<>> THEN FALSE
    ELSE IF Head(a) = Head(b) THEN KeyTypeError(Tail(a), Tail(b))
    ELSE ElemTypeError(Head(a), Head(b))

\* sorted(alist, key=alphanum_key) is stable: insertion behind the equal keys
RECURSIVE SortedInsert(_, _)
SortedInsert(sorted, x) ==
    IF sorted = <<>> THEN <<x>>
    ELSE IF KeyLess(alphanum_key(x), alphanum_key(Head(sorted)))
         THEN <<x>> \o sorted
         ELSE <<Head(sorted)>> \o SortedInsert(Tail(sorted), x)

RECURSIVE natural_sort(_)
natural_sort(alist) ==
    IF alist = <<>> THEN <<>>
    ELSE SortedInsert(natural_sort(SubSeq(alist, 1, Len(alist) - 1)), alist[Len(alist)])

\* sorted raises the TypeError of a comparison of two keys.  A key starts with
\* an int only for an item of decimal digits none of which [0-9] matches, and
\* with a str otherwise; every sort of a list holding both compares one of
\* the first kind with one of the second
NaturalSortTypeError(alist) ==
    \E i, j \in 1..Len(alist) :
        LET a == alphanum_key(alist[i])
            b == alphanum_key(alist[j])
        IN  a[1] # b[1] /\ ElemTypeError(a[1], b[1])

(***************************************************************************)
(* Physical constants                                                      *)
(***************************************************************************)
GRAVITY == Rat(980665, 100000)

\* src/ace_inference/core/constants.py is not among the sources.  The
\* corrector divides and multiplies by these two positive constants and
\* nothing else depends on their values; small ones keep the exact
\* arithmetic within TLC's integers.
TIMESTEP_SECONDS == R(2)

LATENT_HEAT_OF_VAPORIZATION == R(4)

(***************************************************************************)
(* metrics.py                                                              *)
(***************************************************************************)
\* weighted_mean(tensor, weights, dim=(-2, -1))
weighted_mean(tensor, weights) ==
    TDiv(SumLast(TMul(tensor, weights), 2), SumLast(Expand(weights, tensor.shape), 2))

vertical_integral(integrand, surface_pressure, ak, bk) ==
    LET pressure_thickness == DiffLast(TAdd(ak, TMul(Unsqueeze(surface_pressure), bk)))
        integral           == SumLast(TMul(pressure_thickness, integrand), 1)
    IN  TMul(Scalar(RDiv(R(1), GRAVITY)), integral)

\* the ValueError of surface_pressure_due_to_dry_air
LevelsMismatch(specific_total_water, ak, bk) ==
    LET num_levels == ak.shape[1] - 1
    IN  \/ num_levels # bk.shape[1] - 1
        \/ num_levels # specific_total_water.shape[Len(specific_total_water.shape)]

surface_pressure_due_to_dry_air(specific_total_water, surface_pressure, ak, bk) ==
    LET total_water_path == vertical_integral(specific_total_water, surface_pressure, ak, bk)
    IN  TSub(surface_pressure, TMul(Scalar(GRAVITY), total_water_path))

(***************************************************************************)
(* ClimateData (climate_data.py).  The accessors take the dict self._data; *)
(* an accessor that can raise is a pair: the condition under which it      *)
(* raises and its value when it does not.                                  *)
(***************************************************************************)
CLIMATE_FIELD_NAME_PREFIXES ==
    [specific_total_water |-> <<"specific_total_water_">>,
     surface_pressure |-> <<"PRESsfc", "PS">>,
     tendency_of_total_water_path_due_to_advection |->
         <<"tendency_of_total_water_path_due_to_advection">>,
     latent_heat_flux |-> <<"LHTFLsfc", "LHFLX">>,
     sensible_heat_flux |-> <<"SHTFLsfc">>,
     precipitation_rate |-> <<"PRATEsfc", "surface_precipitation_rate">>,
     sfc_down_sw_radiative_flux |-> <<"DSWRFsfc">>,
     sfc_up_sw_radiative_flux |-> <<"USWRFsfc">>,
     sfc_down_lw_radiative_flux |-> <<"DLWRFsfc">>,
     sfc_up_lw_radiative_flux |-> <<"ULWRFsfc">>]

\* ClimateData holding the dict of the caller itself
ClimateData_alias(heap, climate_data) == [heap |-> heap, data |-> climate_data]

\* Objects: heap is the sequence of the dicts allocated so far and a reference
\* is a position in it.  ClimateData.__init__: self._data = dict(climate_data)
\* allocates a new dict with the same items; the result is the heap and the
\* reference self._data
ClimateData(heap, climate_data) ==
    [heap |-> Append(heap, heap[climate_data]), data |-> Len(heap) + 1]

\* the field names of _data that start with prefix, in dict order
RECURSIVE PrefixNames(_, _)
PrefixNames(keys, prefix) ==
    IF keys = <<>> THEN <<>>
    ELSE (IF StartsWith(Head(keys), prefix) THEN <<Head(keys)>> ELSE <<>>)
         \o PrefixNames(Tail(keys), prefix)

\* the levels stacked in the order of the keys of _data, line 83 left out
_extract_prefix_levels_unsorted(data, prefix) ==
    LET names == PrefixNames(Keys(data), prefix)
    IN  Stack([i \in 1..Len(names) |-> Get(data, names[i])], -1)

_extract_prefix_levels(data, prefix) ==
    LET names == natural_sort(PrefixNames(Keys(data), prefix))
    IN  Stack([i \in 1..Len(names) |-> Get(data, names[i])], -1)

\* the prefixes of the list with at least one matching field name
MatchingPrefixes(data, name) ==
    SelectSeq(name, LAMBDA prefix : PrefixNames(Keys(data), prefix) # <<>>)

\* _extract_levels raises KeyError(name)
ExtractLevelsFails(data, name) == MatchingPrefixes(data, name) = <<>>

_extract_levels(data, name) == _extract_prefix_levels(data, Head(MatchingPrefixes(data, name)))

\* the aliases of the canonical name that are keys of _data, in declared order
PresentAliases(data, name) ==
    SelectSeq(CLIMATE_FIELD_NAME_PREFIXES[name], LAMBDA prefix : HasKey(data, prefix))

\* _get and _set raise KeyError(name)
GetFails(data, name) == PresentAliases(data, name) = <<>>

\* _get resolving by the order of the keys of _data, not of the aliases
_get_in_mapping_order(data, name) ==
    data[CHOOSE i \in 1..Len(data) :
             /\ \E j \in 1..Len(CLIMATE_FIELD_NAME_PREFIXES[name]) :
                    CLIMATE_FIELD_NAME_PREFIXES[name][j] = data[i].k
             /\ \A h \in 1..(i - 1) :
                    \A j \in 1..Len(CLIMATE_FIELD_NAME_PREFIXES[name]) :
                        CLIMATE_FIELD_NAME_PREFIXES[name][j] # data[h].k].v

_get(data, name) == Get(data, Head(PresentAliases(data, name)))

_set(data, name, value) == Put(data, Head(PresentAliases(data, name)), value)

specific_total_water(data) ==
    _extract_levels(data, CLIMATE_FIELD_NAME_PREFIXES["specific_total_water"])

SpecificTotalWaterFails(data) ==
    ExtractLevelsFails(data, CLIMATE_FIELD_NAME_PREFIXES["specific_total_water"])

\* the arguments are evaluated in the order water, pressure: both can raise
DryAirKeyError(data) == SpecificTotalWaterFails(data) \/ GetFails(data, "surface_pressure")

ClimateData_surface_pressure_due_to_dry_air(data, sigma_coordinates) ==
    surface_pressure_due_to_dry_air(specific_total_water(data), _get(data, "surface_pressure"),
                                    sigma_coordinates.ak, sigma_coordinates.bk)

total_water_path(data, sigma_coordinates) ==
    vertical_integral(specific_total_water(data), _get(data, "surface_pressure"),
                      sigma_coordinates.ak, sigma_coordinates.bk)

evaporation_rate(data) ==
    TDiv(_get(data, "latent_heat_flux"), Scalar(LATENT_HEAT_OF_VAPORIZATION))

\* the setter storing the rate itself as the latent heat flux
set_evaporation_rate_unscaled(data, value) == _set(data, "latent_heat_flux", value)

set_evaporation_rate(data, value) ==
    _set(data, "latent_heat_flux", TMul(value, Scalar(LATENT_HEAT_OF_VAPORIZATION)))

(***************************************************************************)
(* corrector.py.  A call returns [err, heap, data]: err is "" and data the *)
(* reference of the returned dict, or err names the exception raised.      *)
(***************************************************************************)
\* a local name assigned: value is computed first, Body is the code after it
With(value, Body(_)) == CHOOSE result \in {Body(v) : v \in {value}} : TRUE

Return(heap, data) == [err |-> "", heap |-> heap, data |-> data]

Raise(heap, err) == [err |-> err, heap |-> heap, data |-> 0]

\* the surface pressure with the ak term left out
SolveSurfacePressure_NoAk(new_gen_dry_air, wat, sigma_coordinates) ==
    TDiv(new_gen_dry_air,
         TSub(Scalar(R(1)), SumLast(TMul(DiffLast(sigma_coordinates.bk), wat), 1)))

\* lines 184-186: the surface pressure of a given dry air pressure
SolveSurfacePressure(new_gen_dry_air, wat, sigma_coordinates) ==
    LET ak_diff == DiffLast(sigma_coordinates.ak)
        bk_diff == DiffLast(sigma_coordinates.bk)
    IN  TDiv(TAdd(new_gen_dry_air, SumLast(TMul(ak_diff, wat), 1)),
             TSub(Scalar(R(1)), SumLast(TMul(bk_diff, wat), 1)))

_force_conserve_dry_air(heap, input_data, gen_data, area, sigma_coordinates) ==
    With(ClimateData(heap, input_data), LAMBDA input :
    With(ClimateData(input.heap, gen_data), LAMBDA gen :
    With(gen.heap[input.data], LAMBDA I :
    With(gen.heap[gen.data], LAMBDA G :
        IF GetFails(I, "surface_pressure") THEN Raise(input.heap, "KeyError")
        ELSE IF DryAirKeyError(G) THEN Raise(gen.heap, "KeyError")
        ELSE IF LevelsMismatch(specific_total_water(G), sigma_coordinates.ak,
                               sigma_coordinates.bk) THEN Raise(gen.heap, "ValueError")
        ELSE IF DryAirKeyError(I) THEN Raise(gen.heap, "KeyError")
        ELSE IF LevelsMismatch(specific_total_water(I), sigma_coordinates.ak,
                               sigma_coordinates.bk) THEN Raise(gen.heap, "ValueError")
        ELSE
        With(ClimateData_surface_pressure_due_to_dry_air(G, sigma_coordinates),
             LAMBDA gen_dry_air :
        With(weighted_mean(gen_dry_air, area), LAMBDA global_gen_dry_air :
        With(weighted_mean(ClimateData_surface_pressure_due_to_dry_air(I, sigma_coordinates),
                           area), LAMBDA global_target_gen_dry_air :
        With(TSub(global_gen_dry_air, global_target_gen_dry_air), LAMBDA error :
        With(TSub(gen_dry_air, Unsqueeze2(error)), LAMBDA new_gen_dry_air :
        With(specific_total_water(G), LAMBDA wat :
        With(SolveSurfacePressure(new_gen_dry_air, wat, sigma_coordinates),
             LAMBDA new_pressure :
            Return([gen.heap EXCEPT ![gen.data] = _set(G, "surface_pressure", new_pressure)],
                   gen.data))))))))))))

\* the stage with the unweighted mean in place of the area-weighted one
_force_zero_global_mean_moisture_advection_unweighted(heap, gen_data, area) ==
    With(ClimateData(heap, gen_data), LAMBDA gen :
    With(gen.heap[gen.data], LAMBDA G :
        IF GetFails(G, "tendency_of_total_water_path_due_to_advection")
        THEN Raise(gen.heap, "KeyError")
        ELSE
        With(_get(G, "tendency_of_total_water_path_due_to_advection"), LAMBDA advection :
        With(weighted_mean(advection, Tensor(area.shape, [i \in 1..Len(area.data) |-> R(1)])),
             LAMBDA mean_moisture_advection :
            Return([gen.heap EXCEPT ![gen.data] =
                       _set(G, "tendency_of_total_water_path_due_to_advection",
                            TSub(advection, Unsqueeze2(mean_moisture_advection)))],
                   gen.data)))))

_force_zero_global_mean_moisture_advection(heap, gen_data, area) ==
    With(ClimateData(heap, gen_data), LAMBDA gen :
    With(gen.heap[gen.data], LAMBDA G :
        IF GetFails(G, "tendency_of_total_water_path_due_to_advection")
        THEN Raise(gen.heap, "KeyError")
        ELSE
        With(_get(G, "tendency_of_total_water_path_due_to_advection"), LAMBDA advection :
        With(weighted_mean(advection, area), LAMBDA mean_moisture_advection :
            Return([gen.heap EXCEPT ![gen.data] =
                       _set(G, "tendency_of_total_water_path_due_to_advection",
                            TSub(advection, Unsqueeze2(mean_moisture_advection)))],
                   gen.data)))))

\* the rescaling with the sign of the tendency reversed in the new
\* precipitation mean
RescaleBudgetTerm_Sign(G, terms_to_modify, twp_tendency_global_mean, evaporation_global_mean, precipitation_global_mean) ==
    IF EndsWith(terms_to_modify, "precipitation")
    THEN _set(G, "precipitation_rate",
              TMul(_get(G, "precipitation_rate"),
                   Unsqueeze2(TDiv(TAdd(evaporation_global_mean, twp_tendency_global_mean),
                                   precipitation_global_mean))))
    ELSE IF EndsWith(terms_to_modify, "evaporation")
    THEN set_evaporation_rate(G,
              TMul(evaporation_rate(G),
                   Unsqueeze2(TDiv(TAdd(twp_tendency_global_mean, precipitation_global_mean),
                                   evaporation_global_mean))))
    ELSE G

\* the rescaling guarded: a global mean of zero is divided by as if it were 1
RescaleBudgetTerm_Guarded(G, terms_to_modify, twp_tendency_global_mean, evaporation_global_mean, precipitation_global_mean) ==
    LET Guarded(mean) ==
            Tensor(mean.shape, [i \in 1..Len(mean.data) |->
                                   IF IsZero(mean.data[i]) THEN R(1) ELSE mean.data[i]])
    IN  IF EndsWith(terms_to_modify, "precipitation")
        THEN _set(G, "precipitation_rate",
                  TMul(_get(G, "precipitation_rate"),
                       Unsqueeze2(TDiv(TSub(evaporation_global_mean,
                                            twp_tendency_global_mean),
                                       Guarded(precipitation_global_mean)))))
        ELSE IF EndsWith(terms_to_modify, "evaporation")
        THEN set_evaporation_rate(G,
                  TMul(evaporation_rate(G),
                       Unsqueeze2(TDiv(TAdd(twp_tendency_global_mean,
                                            precipitation_global_mean),
                                       Guarded(evaporation_global_mean)))))
        ELSE G

\* lines 260-288: the precipitation or the evaporation of gen rescaled
RescaleBudgetTerm(G, terms_to_modify, twp_tendency_global_mean, evaporation_global_mean, precipitation_global_mean) ==
    LET new_precipitation_global_mean ==
            TSub(evaporation_global_mean, twp_tendency_global_mean)
        new_evaporation_global_mean ==
            TAdd(twp_tendency_global_mean, precipitation_global_mean)
    IN  IF EndsWith(terms_to_modify, "precipitation")
        THEN _set(G, "precipitation_rate",
                  TMul(_get(G, "precipitation_rate"),
                       Unsqueeze2(TDiv(new_precipitation_global_mean,
                                       precipitation_global_mean))))
        ELSE IF EndsWith(terms_to_modify, "evaporation")
        THEN set_evaporation_rate(G,
                  TMul(evaporation_rate(G),
                       Unsqueeze2(TDiv(new_evaporation_global_mean,
                                       evaporation_global_mean))))
        ELSE G

_force_conserve_moisture(heap, input_data, gen_data, area, sigma_coordinates, terms_to_modify) ==
    With(ClimateData(heap, input_data), LAMBDA input :
    With(ClimateData(input.heap, gen_data), LAMBDA gen :
    With(gen.heap[input.data], LAMBDA I :
    With(gen.heap[gen.data], LAMBDA G :
        IF DryAirKeyError(G) \/ DryAirKeyError(I) \/ GetFails(G, "latent_heat_flux")
           \/ GetFails(G, "precipitation_rate")
        THEN Raise(gen.heap, "KeyError")
        ELSE
        With(total_water_path(G, sigma_coordinates), LAMBDA gen_total_water_path :
        With(TDiv(TSub(gen_total_water_path, total_water_path(I, sigma_coordinates)),
                  Scalar(TIMESTEP_SECONDS)), LAMBDA twp_total_tendency :
        With(weighted_mean(twp_total_tendency, area), LAMBDA twp_tendency_global_mean :
        With(weighted_mean(evaporation_rate(G), area), LAMBDA evaporation_global_mean :
        With(weighted_mean(_get(G, "precipitation_rate"), area),
             LAMBDA precipitation_global_mean :
        With(RescaleBudgetTerm(G, terms_to_modify, twp_tendency_global_mean,
                               evaporation_global_mean, precipitation_global_mean),
             LAMBDA G1 :
        With([gen.heap EXCEPT ![gen.data] = G1], LAMBDA h1 :
            IF StartsWith(terms_to_modify, "advection")
            THEN IF GetFails(G1, "tendency_of_total_water_path_due_to_advection")
                 THEN Raise(h1, "KeyError")
                 ELSE With(TSub(twp_total_tendency,
                                TSub(evaporation_rate(G1), _get(G1, "precipitation_rate"))),
                           LAMBDA new_advection :
                          Return([h1 EXCEPT ![gen.data] =
                                     _set(G1, "tendency_of_total_water_path_due_to_advection",
                                          new_advection)],
                                 gen.data))
            ELSE Return(h1, gen.data))))))))))))

\* the three gated stages of Corrector.__call__, each on the heap and the
\* current binding of gen_data
DryAirStage(self, heap, input_data, gen_data) ==
    IF self.config.conserve_dry_air
    THEN _force_conserve_dry_air(heap, input_data, gen_data, self.area,
                                 self.sigma_coordinates)
    ELSE Return(heap, gen_data)

AdvectionStage(self, heap, gen_data) ==
    IF self.config.zero_global_mean_moisture_advection
    THEN _force_zero_global_mean_moisture_advection(heap, gen_data, self.area)
    ELSE Return(heap, gen_data)

MoistureStage(self, heap, input_data, gen_data) ==
    IF self.config.moisture_budget_correction # "None"
    THEN _force_conserve_moisture(heap, input_data, gen_data, self.area,
                                  self.sigma_coordinates,
                                  self.config.moisture_budget_correction)
    ELSE Return(heap, gen_data)

\* Corrector.__call__ as one function of the heap and its two arguments
Corrector_call(self, heap, input_data, gen_data) ==
    With(DryAirStage(self, heap, input_data, gen_data), LAMBDA r1 :
        IF r1.err # "" THEN r1
        ELSE With(AdvectionStage(self, r1.heap, r1.data), LAMBDA r2 :
                 IF r2.err # "" THEN r2
                 ELSE MoistureStage(self, r2.heap, input_data, r2.data)))

(***************************************************************************)
(* State                                                                   *)
(***************************************************************************)
VARIABLES
    heap,       \* the dicts allocated so far; a reference is a position
    corrector,  \* the Corrector: [config, area, sigma_coordinates]
    cc,         \* the frame of one Corrector.__call__: pc, the arguments
                \* input_data and gen_data (arg), the local gen_data, err; and
                \* for the properties, the stages run with the dict each was
                \* given and the dict it returned (chain), and the items of
                \* the two arguments at the call (orig)
    pk,         \* a Packer (self) and the frame of its use: pc, the mapping
                \* tensors, the resolved axes, the packed tensor, the result
    stepper,    \* the collaborators run_on_batch is called with: in_packer,
                \* out_packer, normalizer, ocean, module, _corrector
    rb,         \* the frame of one run_on_batch: pc, its arguments data and
                \* n_forward_steps, its locals, err; and for the properties
                \* the operations done so far with argument and result (trace)
    view,       \* a ClimateData object in use: the reference m of the mapping
                \* it was constructed over, the reference of its _data, and
                \* the accessor calls made so far with their outcome (calls)
    ns,         \* the frame of one natural_sort call: alist and the result
    calls,      \* the frames of the Corrector.__call__s in progress on one
                \* shared Corrector, each as cc without chain, with the
                \* outcome of the same call made alone (alone)
    sg,         \* the frame of one get_sigma_coordinates call: the dataset
                \* and the coordinates returned or the error raised
    ds,         \* an XarrayDataset and the frame of one read of a sample
    metric,     \* an AreaWeightedReducedMetric and the record calls made
    model       \* a BaseModel: the modes of its layers, and the frame of
                \* one inference_dropout_scope

vars == <<heap, corrector, cc, pk, stepper, rb, view, ns, calls, sg, ds, metric, model>>

\* the value of a frame no call is using
Idle == [pc |-> "idle"]


(***************************************************************************)
(* Inputs of the corrector                                                 *)
(***************************************************************************)
NLevel == 2

GridShape == <<NSample, NLat, NLon>>

\* a field over the grid: base, base + step, base + 2 step, base, ...
Field(base, step) ==
    Tensor(GridShape, [i \in 1..Numel(GridShape) |-> RAdd(base, RMul(R((i - 1) % 3), step))])

Vector(f(_), n) == Tensor(<<n>>, [i \in 1..n |-> f(i)])

\* ak = [0, 6, 12], bk = [1, 0.5, 0] for two levels
SigmaCoordinates ==
    [ak |-> Vector(LAMBDA i : R(6 * (i - 1)), NLevel + 1),
     bk |-> Vector(LAMBDA i : Rat(NLevel + 1 - i, NLevel), NLevel + 1)]

\* area weights: uniform, or growing with the latitude index
AreaChoices ==
    {Tensor(<<NLat, NLon>>, [i \in 1..(NLat * NLon) |-> R(1)]),
     Tensor(<<NLat, NLon>>, [i \in 1..(NLat * NLon) |-> R(1 + ((i - 1) \div NLon))])}

BudgetModes ==
    {"None", "precipitation", "evaporation", "advection_and_precipitation",
     "advection_and_evaporation"}

CorrectorConfigs ==
    [conserve_dry_air : BOOLEAN, zero_global_mean_moisture_advection : BOOLEAN,
     moisture_budget_correction : BudgetModes]

LevelName(k) == "specific_total_water_" \o ToString(k)

\* the water levels, stored in descending order of the level number
WaterItems(q) ==
    [i \in 1..NLevel |-> [k |-> LevelName(NLevel - i), v |-> q[NLevel - i + 1]]]

Item(k, v) == <<[k |-> k, v |-> v]>>

\* the field names a state is stored under: the aliases of the pressure, the
\* latent heat flux and the precipitation ("" for an absent field), and
\* whether the water levels and the advection tendency are present
Layouts ==
    {[ps |-> <<"PRESsfc">>, lhf |-> "LHTFLsfc", pr |-> "PRATEsfc", q |-> TRUE, adv |-> TRUE],
     [ps |-> <<"PS">>, lhf |-> "LHFLX", pr |-> "surface_precipitation_rate", q |-> TRUE,
      adv |-> TRUE],
     [ps |-> <<"PS", "PRESsfc">>, lhf |-> "LHTFLsfc", pr |-> "PRATEsfc", q |-> TRUE,
      adv |-> TRUE],
     [ps |-> <<>>, lhf |-> "LHTFLsfc", pr |-> "PRATEsfc", q |-> TRUE, adv |-> TRUE],
     [ps |-> <<"PRESsfc">>, lhf |-> "LHTFLsfc", pr |-> "PRATEsfc", q |-> FALSE, adv |-> TRUE],
     [ps |-> <<"PRESsfc">>, lhf |-> "", pr |-> "PRATEsfc", q |-> TRUE, adv |-> TRUE],
     [ps |-> <<"PRESsfc">>, lhf |-> "LHTFLsfc", pr |-> "", q |-> TRUE, adv |-> TRUE],
     [ps |-> <<"PRESsfc">>, lhf |-> "LHTFLsfc", pr |-> "PRATEsfc", q |-> TRUE, adv |-> FALSE]}

\* the values of a state: surface pressure, water per level, latent heat flux,
\* precipitation, advection tendency, air temperature
StateDict(layout, ps, q, lhf, pr, adv) ==
    Item("TMP2m", Field(R(280), R(1)))
    \o (IF layout.adv THEN Item("tendency_of_total_water_path_due_to_advection", adv)
        ELSE <<>>)
    \o (IF layout.q THEN WaterItems(q) ELSE <<>>)
    \o [i \in 1..Len(layout.ps) |->
          [k |-> layout.ps[i], v |-> IF i = 1 THEN ps ELSE TAdd(ps, Scalar(R(1)))]]
    \o (IF layout.lhf # "" THEN Item(layout.lhf, lhf) ELSE <<>>)
    \o (IF layout.pr # "" THEN Item(layout.pr, pr) ELSE <<>>)

FullLayout == CHOOSE l \in Layouts : l.ps = <<"PRESsfc">> /\ l.lhf = "LHTFLsfc"
                                      /\ l.pr = "PRATEsfc" /\ l.q /\ l.adv

PsChoices == {Field(R(6), R(6)), Field(R(12), R(0))}

\* water per level; in the last choice 1 - sum_k(bk_diff * q_k) is zero
WaterChoices ==
    {[k \in 1..NLevel |-> Field(R(1), R(2))],
     [k \in 1..NLevel |-> Field(R(1), R(0))],
     [k \in 1..NLevel |-> Field(R(-1), R(0))]}

LhfChoices == {Field(R(8), R(4))}

\* precipitation; the last choice has global mean zero
PrecipChoices == {Field(Rat(1, 4), Rat(1, 4)), Field(R(0), R(0))}

AdvChoices == {Field(Rat(1, 2), Rat(1, 2))}

InputState(layout) ==
    StateDict(layout, Field(R(6), R(6)), [k \in 1..NLevel |-> Field(R(k), R(1))],
              Field(R(4), R(4)), Field(Rat(1, 2), R(0)), Field(R(0), R(0)))

\* latent heat flux and precipitation of which one has the global mean zero
\* under uniform area weights: zero everywhere, or of both signs
ZeroMeanChoices ==
    {<<Field(R(0), R(0)), Field(Rat(1, 4), Rat(1, 4))>>,
     <<Field(R(-8), R(16)), Field(Rat(1, 4), Rat(1, 4))>>,
     <<Field(R(8), R(4)), Field(R(-1), R(2))>>}

\* the generated states: every choice of values in the full layout, the
\* choices with a global mean zero, one choice of values in the other layouts
GenStates ==
    {StateDict(FullLayout, ps, q, lhf, pr, adv) :
        ps \in PsChoices, q \in WaterChoices, lhf \in LhfChoices, pr \in PrecipChoices,
        adv \in AdvChoices}
    \cup {StateDict(FullLayout, Field(R(6), R(6)), [k \in 1..NLevel |-> Field(R(1), R(2))],
                    z[1], z[2], Field(Rat(1, 2), Rat(1, 2))) : z \in ZeroMeanChoices}
    \cup {StateDict(l, Field(R(6), R(6)), [k \in 1..NLevel |-> Field(R(1), R(2))],
                    Field(R(8), R(4)), Field(Rat(1, 4), Rat(1, 4)), Field(Rat(1, 2), Rat(1, 2))) :
            l \in Layouts}

\* the two arguments of a call: at most one of them is not in the full layout
CallArguments ==
    {<<InputState(FullLayout), g>> : g \in GenStates}
    \cup {<<InputState(l), StateDict(FullLayout, Field(R(6), R(6)),
                                     [k \in 1..NLevel |-> Field(R(1), R(0))],
                                     Field(R(8), R(4)), Field(Rat(1, 4), Rat(1, 4)),
                                     Field(Rat(1, 2), Rat(1, 2)))>> :
            l \in {m \in Layouts : m.lhf = "LHTFLsfc" /\ m.pr = "PRATEsfc" /\ m.adv}}

(***************************************************************************)
(* Corrector.__call__ step by step                                         *)
(***************************************************************************)
InitCorrector ==
    \E config \in CorrectorConfigs, area \in AreaChoices, args \in CallArguments :
        /\ corrector = [config |-> config, area |-> area,
                        sigma_coordinates |-> SigmaCoordinates]
        /\ heap = <<args[1], args[2]>>
        /\ cc = [pc |-> "conserve_dry_air", input_data |-> 1, arg |-> 2, gen_data |-> 2,
                 err |-> "", chain |-> <<>>, orig |-> args]
        /\ sg = Idle
        /\ ds = Idle
        /\ metric = Idle
        /\ model = Idle
        /\ pk = Idle
        /\ stepper = Idle
        /\ rb = Idle
        /\ view = Idle
        /\ ns = Idle
        /\ calls = Idle

StageOrder ==
    <<"conserve_dry_air", "zero_global_mean_moisture_advection", "moisture_budget_correction">>

StageEnabled(name) ==
    CASE name = "conserve_dry_air" -> corrector.config.conserve_dry_air
      [] name = "zero_global_mean_moisture_advection" ->
             corrector.config.zero_global_mean_moisture_advection
      [] name = "moisture_budget_correction" ->
             corrector.config.moisture_budget_correction # "None"

\* one stage of __call__ applied to the dict gen_data, then the line next; an
\* enabled stage that returns is recorded with the dict it was given and the
\* dict it returned
Stage(name, gen_data, next) ==
    \E r \in {CASE name = "conserve_dry_air" ->
                      DryAirStage(corrector, heap, cc.input_data, gen_data)
               [] name = "zero_global_mean_moisture_advection" ->
                      AdvectionStage(corrector, heap, gen_data)
               [] name = "moisture_budget_correction" ->
                      MoistureStage(corrector, heap, cc.input_data, gen_data)} :
             /\ heap' = r.heap
             /\ IF r.err # ""
                THEN cc' = [cc EXCEPT !.pc = "raised", !.err = r.err]
                ELSE cc' = [cc EXCEPT !.pc = next, !.gen_data = r.data,
                                      !.chain = IF StageEnabled(name)
                                                THEN Append(@, [stage |-> name,
                                                                given |-> gen_data,
                                                                returned |-> r.data])
                                                ELSE @]
             /\ UNCHANGED <<corrector, pk, stepper, rb, view, ns, calls, sg, ds, metric, model>>

ConserveDryAir ==
    /\ cc.pc = "conserve_dry_air"
    /\ Stage("conserve_dry_air", cc.gen_data, "zero_global_mean_moisture_advection")

\* the second stage working on the caller's dict, not on the first stage's result
ZeroGlobalMeanMoistureAdvection_OnArgument ==
    /\ cc.pc = "zero_global_mean_moisture_advection"
    /\ Stage("zero_global_mean_moisture_advection", cc.arg, "moisture_budget_correction")

ZeroGlobalMeanMoistureAdvection ==
    /\ cc.pc = "zero_global_mean_moisture_advection"
    /\ Stage("zero_global_mean_moisture_advection", cc.gen_data, "moisture_budget_correction")

MoistureBudgetCorrection ==
    /\ cc.pc = "moisture_budget_correction"
    /\ Stage("moisture_budget_correction", cc.gen_data, "return")

ReturnGenData ==
    /\ cc.pc = "return"
    /\ cc' = [cc EXCEPT !.pc = "done"]
    /\ UNCHANGED <<heap, corrector, pk, stepper, rb, view, ns, calls, sg, ds, metric, model>>

NextCorrector ==
    \/ ConserveDryAir
    \/ ZeroGlobalMeanMoistureAdvection
    \/ MoistureBudgetCorrection
    \/ ReturnGenData

SpecCorrector == InitCorrector /\ [][NextCorrector]_vars

(***************************************************************************)
(* Properties of the corrector                                             *)
(***************************************************************************)
ADV == "tendency_of_total_water_path_due_to_advection"

RanStage(name) == \E i \in 1..Len(cc.chain) : cc.chain[i].stage = name

Link(name) == cc.chain[CHOOSE i \in 1..Len(cc.chain) : cc.chain[i].stage = name]

\* the dict a stage was given and the dict it returned
Given(name) == heap[Link(name).given]

Returned(name) == heap[Link(name).returned]

Finite(t) == \A i \in 1..Len(t.data) : IsFinite(t.data[i])

NowhereZero(t) == \A i \in 1..Len(t.data) : ~IsZero(t.data[i])

GlobalMean(t) == weighted_mean(t, corrector.area)

GlobalMeanDryAir(data) ==
    GlobalMean(ClimateData_surface_pressure_due_to_dry_air(data, corrector.sigma_coordinates))

\* 1 - sum_k(bk_diff * q_k), per column
PressureDenominator(data) ==
    TSub(Scalar(R(1)),
         SumLast(TMul(DiffLast(corrector.sigma_coordinates.bk), specific_total_water(data)), 1))

OtherFieldsUnchanged(before, after, key) ==
    /\ Keys(after) = Keys(before)
    /\ \A k \in KeySet(before) \ {key} : Get(after, k) = Get(before, k)

\* C5: with conserve_dry_air enabled and 1 - sum_k(bk_diff * q_k) non-zero in
\* every column of the generated state, the state the dry-air stage returns
\* has the area-weighted global-mean dry-air surface pressure of the input
\* state; only the resolved surface pressure field differs from the state the
\* stage was given, the water fields are unchanged.
C5_DryAirConserved ==
    RanStage("conserve_dry_air") =>
        LET before == Given("conserve_dry_air")
            after  == Returned("conserve_dry_air")
        IN  NowhereZero(PressureDenominator(before)) =>
                /\ GlobalMeanDryAir(after) = GlobalMeanDryAir(heap[cc.input_data])
                /\ Finite(GlobalMeanDryAir(after))
                /\ specific_total_water(after) = specific_total_water(before)
                /\ OtherFieldsUnchanged(before, after,
                                        Head(PresentAliases(before, "surface_pressure")))

C5_Witness ==
    /\ RanStage("conserve_dry_air")
    /\ NowhereZero(PressureDenominator(Given("conserve_dry_air")))
    /\ _get(Returned("conserve_dry_air"), "surface_pressure")
           # _get(Given("conserve_dry_air"), "surface_pressure")
    /\ corrector.area.data[1] # corrector.area.data[NLat * NLon]

\* the cells of one sample are the positions i with the same SampleOf(i)
SampleOf(i) == (i - 1) \div (NLat * NLon)

UniformPerSample(t) ==
    \A i \in 1..Len(t.data) : t.data[i] = t.data[SampleOf(i) * NLat * NLon + 1]

\* C6: with zero_global_mean_moisture_advection enabled, the advection
\* tendency the stage returns is the one it was given minus one constant per
\* sample, and its area-weighted global mean is exactly zero.
C6_ZeroGlobalMeanAdvection ==
    RanStage("zero_global_mean_moisture_advection") =>
        LET before == Given("zero_global_mean_moisture_advection")
            after  == Returned("zero_global_mean_moisture_advection")
            mean   == GlobalMean(_get(after, ADV))
        IN  /\ UniformPerSample(TSub(_get(before, ADV), _get(after, ADV)))
            /\ \A s \in 1..Len(mean.data) : mean.data[s] = R(0)

C6_Witness ==
    /\ RanStage("zero_global_mean_moisture_advection")
    /\ _get(Returned("zero_global_mean_moisture_advection"), ADV)
           # _get(Given("zero_global_mean_moisture_advection"), ADV)
    /\ corrector.area.data[1] # corrector.area.data[NLat * NLon]

\* the tendency of the total water path from the input state to state data
TwpTendency(data) ==
    TDiv(TSub(total_water_path(data, corrector.sigma_coordinates),
              total_water_path(heap[cc.input_data], corrector.sigma_coordinates)),
         Scalar(TIMESTEP_SECONDS))

Precipitation(data) == _get(data, "precipitation_rate")

\* C7: after the moisture-budget stage in mode "advection_and_precipitation",
\* given finite fields and a non-zero global-mean precipitation, the returned
\* state satisfies pointwise advection = twp_tendency - (evaporation -
\* precipitation), with the rescaled precipitation, and global_mean(
\* twp_tendency) = global_mean(evaporation) - global_mean(precipitation).
C7_BudgetClosure ==
    (RanStage("moisture_budget_correction")
     /\ corrector.config.moisture_budget_correction = "advection_and_precipitation") =>
        LET before == Given("moisture_budget_correction")
            after  == Returned("moisture_budget_correction")
        IN  (Finite(_get(before, "surface_pressure"))
             /\ NowhereZero(GlobalMean(Precipitation(before)))) =>
                /\ _get(after, ADV)
                       = TSub(TwpTendency(after),
                              TSub(evaporation_rate(after), Precipitation(after)))
                /\ GlobalMean(TwpTendency(after))
                       = TSub(GlobalMean(evaporation_rate(after)),
                              GlobalMean(Precipitation(after)))
                /\ Finite(_get(after, ADV))

C7_Witness ==
    /\ RanStage("moisture_budget_correction")
    /\ corrector.config.moisture_budget_correction = "advection_and_precipitation"
    /\ Finite(_get(Given("moisture_budget_correction"), "surface_pressure"))
    /\ NowhereZero(GlobalMean(Precipitation(Given("moisture_budget_correction"))))
    /\ Precipitation(Returned("moisture_budget_correction"))
           # Precipitation(Given("moisture_budget_correction"))
    /\ RanStage("conserve_dry_air")

\* C8: in the modes ending in "evaporation", given finite fields and a non-zero
\* global-mean evaporation, the returned evaporation is the given one times one
\* factor per sample, its global mean is global_mean(twp_tendency) +
\* global_mean(precipitation), and the precipitation is unchanged; in the
\* modes ending in "precipitation" (non-zero global-mean precipitation) the
\* precipitation is the given one times one factor per sample and the
\* evaporation is unchanged.
C8_RescaledTerm ==
    RanStage("moisture_budget_correction") =>
        LET before == Given("moisture_budget_correction")
            after  == Returned("moisture_budget_correction")
            mode   == corrector.config.moisture_budget_correction
            e0     == evaporation_rate(before)
            e1     == evaporation_rate(after)
            p0     == Precipitation(before)
            p1     == Precipitation(after)
        IN  /\ (EndsWith(mode, "evaporation") /\ Finite(_get(before, "surface_pressure"))
                /\ NowhereZero(GlobalMean(e0))) =>
                    /\ e1 = TMul(e0, Unsqueeze2(TDiv(GlobalMean(e1), GlobalMean(e0))))
                    /\ GlobalMean(e1) = TAdd(GlobalMean(TwpTendency(after)), GlobalMean(p0))
                    /\ Finite(e1)
                    /\ p1 = p0
            /\ (EndsWith(mode, "precipitation") /\ Finite(_get(before, "surface_pressure"))
                /\ NowhereZero(GlobalMean(p0))) =>
                    /\ p1 = TMul(p0, Unsqueeze2(TDiv(GlobalMean(p1), GlobalMean(p0))))
                    /\ Finite(p1)
                    /\ e1 = e0
                    /\ _get(after, "latent_heat_flux") = _get(before, "latent_heat_flux")

C8_Witness ==
    /\ RanStage("moisture_budget_correction")
    /\ EndsWith(corrector.config.moisture_budget_correction, "evaporation")
    /\ Finite(_get(Given("moisture_budget_correction"), "surface_pressure"))
    /\ NowhereZero(GlobalMean(evaporation_rate(Given("moisture_budget_correction"))))
    /\ evaporation_rate(Returned("moisture_budget_correction"))
           # evaporation_rate(Given("moisture_budget_correction"))

\* the number of stages __call__ is past at a line
StagesPast(pc) ==
    CASE pc = "conserve_dry_air" -> 0
      [] pc = "zero_global_mean_moisture_advection" -> 1
      [] pc = "moisture_budget_correction" -> 2
      [] OTHER -> Len(StageOrder)

StageNames(chain) == [i \in 1..Len(chain) |-> chain[i].stage]

\* the dict stage i of the chain must have worked on
PreviousResult(i) == IF i = 1 THEN cc.arg ELSE cc.chain[i - 1].returned

\* C9: the stages run so far are the enabled ones among the stages passed, in
\* the order dry air, zero advection, moisture budget; every stage was given
\* the dict the previous enabled stage returned (the first the generated state
\* of the caller) and gen_data is the dict the last one returned; with all
\* three disabled the returned state is the caller's, every field unchanged.
C9_StageOrder ==
    cc.pc # "raised" =>
        /\ StageNames(cc.chain)
               = SelectSeq(SubSeq(StageOrder, 1, StagesPast(cc.pc)), StageEnabled)
        /\ \A i \in 1..Len(cc.chain) : cc.chain[i].given = PreviousResult(i)
        /\ cc.gen_data = PreviousResult(Len(cc.chain) + 1)
        /\ (cc.pc = "done" /\ \A i \in 1..Len(StageOrder) : ~StageEnabled(StageOrder[i])) =>
               /\ cc.gen_data = cc.arg
               /\ heap[cc.gen_data] = cc.orig[2]

\* all three stages ran, each changing the state it was given
C9_Witness ==
    /\ cc.pc = "done"
    /\ Len(cc.chain) = Len(StageOrder)
    /\ \A i \in 1..Len(cc.chain) : heap[cc.chain[i].returned] # heap[cc.chain[i].given]

C9_WitnessAllDisabled ==
    /\ cc.pc = "done"
    /\ cc.chain = <<>>

\* a stage needs a canonical field that none of the aliases in I (input) or G
\* (generated) provides
MissingField(name, I, G) ==
    CASE name = "conserve_dry_air" -> DryAirKeyError(I) \/ DryAirKeyError(G)
      [] name = "zero_global_mean_moisture_advection" -> GetFails(G, ADV)
      [] name = "moisture_budget_correction" ->
             \/ DryAirKeyError(I) \/ DryAirKeyError(G)
             \/ GetFails(G, "latent_heat_flux") \/ GetFails(G, "precipitation_rate")
             \/ (StartsWith(corrector.config.moisture_budget_correction, "advection")
                 /\ GetFails(G, ADV))

\* the first enabled stage that has not returned
PendingStage ==
    StageOrder[CHOOSE i \in 1..Len(StageOrder) :
                  /\ StageEnabled(StageOrder[i]) /\ ~RanStage(StageOrder[i])
                  /\ \A j \in 1..(i - 1) :
                         StageEnabled(StageOrder[j]) => RanStage(StageOrder[j])]

\* C10: no stage returns a result when a field it needs is missing from the
\* state it reads, and a call that returns has run every enabled stage; a
\* call that fails raised a KeyError out of the first enabled stage that has
\* not returned, a field of which is missing, and the two mappings of the
\* caller then hold exactly the items they held at the call.
C10_MissingFieldRaises ==
    /\ \A i \in 1..Len(cc.chain) :
           ~MissingField(cc.chain[i].stage, heap[cc.input_data], heap[cc.chain[i].given])
    /\ cc.pc \in {"return", "done"} =>
           \A i \in 1..Len(StageOrder) : StageEnabled(StageOrder[i]) => RanStage(StageOrder[i])
    /\ cc.pc = "raised" =>
           /\ cc.err = "KeyError"
           /\ MissingField(PendingStage, heap[cc.input_data], heap[cc.gen_data])
           /\ heap[cc.arg] = cc.orig[2]
           /\ heap[cc.input_data] = cc.orig[1]

\* a failure after an earlier stage corrected a field
C10_Witness ==
    /\ cc.pc = "raised"
    /\ cc.chain # <<>>
    /\ heap[cc.chain[1].returned] # cc.orig[2]

\* the field a mode of the moisture budget rescales, in state data
RescaledField(mode, data) ==
    IF EndsWith(mode, "precipitation") THEN Precipitation(data) ELSE evaporation_rate(data)

\* the global mean the rescaled field is to get
NewGlobalMean(mode, before) ==
    IF EndsWith(mode, "precipitation")
    THEN TSub(GlobalMean(evaporation_rate(before)), GlobalMean(TwpTendency(before)))
    ELSE TAdd(GlobalMean(TwpTendency(before)), GlobalMean(Precipitation(before)))

\* the samples of which the field the mode rescales has the global mean zero
ZeroMeanSamples(mode, data) ==
    {n \in 1..Len(GlobalMean(RescaledField(mode, data)).data) :
        IsZero(GlobalMean(RescaledField(mode, data)).data[n])}

\* every value of tensor t in the samples S is NaN or infinite
NowhereFinite(t, S) ==
    \A i \in 1..Len(t.data) : SampleOf(i) + 1 \in S => ~IsFinite(t.data[i])

\* C22: the moisture-budget stage raises for a missing field only.  What it
\* returns is the rescaled field times new mean / old mean with no guard: in
\* every sample whose old mean is zero all values of the rescaled field, and
\* in the advection modes of the advection tendency, are NaN or infinite; the
\* call returns.
C22_ZeroMeanPropagates ==
    /\ (cc.pc = "raised" /\ PendingStage = "moisture_budget_correction") =>
           MissingField(PendingStage, heap[cc.input_data], heap[cc.gen_data])
    /\ RanStage("moisture_budget_correction") =>
           LET before == Given("moisture_budget_correction")
               after  == Returned("moisture_budget_correction")
               mode   == corrector.config.moisture_budget_correction
               zero   == ZeroMeanSamples(mode, before)
           IN  /\ cc.pc \in {"return", "done"}
               /\ RescaledField(mode, after)
                      = TMul(RescaledField(mode, before),
                             Unsqueeze2(TDiv(NewGlobalMean(mode, before),
                                             GlobalMean(RescaledField(mode, before)))))
               /\ NowhereFinite(RescaledField(mode, after), zero)
               /\ StartsWith(mode, "advection") => NowhereFinite(_get(after, ADV), zero)

\* a call has returned from a stage that rescaled, in an advection mode, a
\* precipitation of global mean zero to infinite values of both signs
C22_Witness ==
    /\ cc.pc = "done"
    /\ RanStage("moisture_budget_correction")
    /\ corrector.config.moisture_budget_correction = "advection_and_precipitation"
    /\ ZeroMeanSamples("advection_and_precipitation", Given("moisture_budget_correction"))
           # {}
    /\ \E i, j \in 1..(NLat * NLon) :
           /\ Precipitation(Returned("moisture_budget_correction")).data[i] = <<1, 0>>
           /\ Precipitation(Returned("moisture_budget_correction")).data[j] = <<-1, 0>>

\* a call has returned from a stage that rescaled an evaporation of zero to NaN
C22_WitnessNaN ==
    /\ cc.pc = "done"
    /\ RanStage("moisture_budget_correction")
    /\ corrector.config.moisture_budget_correction = "evaporation"
    /\ ZeroMeanSamples("evaporation", Given("moisture_budget_correction")) # {}
    /\ IsNaN(evaporation_rate(Returned("moisture_budget_correction")).data[1])

(***************************************************************************)
(* packer.py.  An optional argument is <<>> (None) or <<value>>.           *)
(***************************************************************************)
None == <<>>

\* Packer.__init__: the object, or the AssertionError of lines 24-30
Packer(names, axis, axis_pack, axis_unpack) ==
    IF axis # None
    THEN IF axis_pack # None \/ axis_unpack # None THEN [err |-> "AssertionError"]
         ELSE [err |-> "", names |-> names, axis_pack |-> axis[1], axis_unpack |-> axis[1]]
    ELSE IF axis_pack = None \/ axis_unpack = None THEN [err |-> "AssertionError"]
         ELSE [err |-> "", names |-> names, axis_pack |-> axis_pack[1],
               axis_unpack |-> axis_unpack[1]]

\* torch.stack raises for an empty list, for tensors of different sizes and
\* for a dim outside [-(r+1), r]
StackError(ts, dim) ==
    IF ts = <<>> THEN "RuntimeError"
    ELSE IF \E i \in 1..Len(ts) : ts[i].shape # ts[1].shape THEN "RuntimeError"
    ELSE IF dim < -(Len(ts[1].shape) + 1) \/ dim > Len(ts[1].shape) THEN "IndexError"
    ELSE ""

\* Tensor.select raises for a dim outside [-r, r-1] and an index outside the dim
SelectError(t, dim, index) ==
    IF dim < -Len(t.shape) \/ dim > Len(t.shape) - 1 THEN "IndexError"
    ELSE IF index < 0 \/ index >= t.shape[NormDim(dim, Len(t.shape))] THEN "IndexError"
    ELSE ""

\* _pack with the mapping read in its own order, not in the order of names
_pack_in_mapping_order(tensors, names, axis) ==
    LET list == [i \in 1..Len(tensors) |-> tensors[i].v]
    IN  IF StackError(list, axis) # "" THEN [err |-> StackError(list, axis)]
        ELSE [err |-> "", value |-> Stack(list, axis)]

\* _pack with the declared names the mapping lacks left out of the stack
_pack_present_names(tensors, names, axis) ==
    LET list == [i \in 1..Len(SelectSeq(names, LAMBDA n : HasKey(tensors, n))) |->
                    Get(tensors, SelectSeq(names, LAMBDA n : HasKey(tensors, n))[i])]
    IN  IF StackError(list, axis) # "" THEN [err |-> StackError(list, axis)]
        ELSE [err |-> "", value |-> Stack(list, axis)]

_pack(tensors, names, axis) ==
    IF \E i \in 1..Len(names) : ~HasKey(tensors, names[i]) THEN [err |-> "KeyError"]
    ELSE LET list == [i \in 1..Len(names) |-> Get(tensors, names[i])]
         IN  IF StackError(list, axis) # "" THEN [err |-> StackError(list, axis)]
             ELSE [err |-> "", value |-> Stack(list, axis)]

\* the dict comprehension: a repeated name keeps its first place and its last value
RECURSIVE DictOf(_, _)
DictOf(items, d) ==
    IF items = <<>> THEN d ELSE DictOf(Tail(items), Put(d, Head(items).k, Head(items).v))

_unpack(tensor, names, axis) ==
    IF \E i \in 1..Len(names) : SelectError(tensor, axis, i - 1) # ""
    THEN [err |-> "IndexError"]
    ELSE [err |-> "",
          value |-> DictOf([i \in 1..Len(names) |->
                               [k |-> names[i], v |-> Select(tensor, axis, i - 1)]], <<>>)]

Packer_pack(self, tensors, axis) ==
    _pack(tensors, self.names, IF axis # None THEN axis[1] ELSE self.axis_pack)

\* list.pop(axis) raises IndexError outside [-len, len-1]
PopError(list, axis) == axis < -Len(list) \/ axis > Len(list) - 1

\* Packer.unpack: a TensorDict, its batch_size the shape without the axis
Packer_unpack(self, tensor, axis) ==
    LET ax == IF axis # None THEN axis[1] ELSE self.axis_unpack
        r  == _unpack(tensor, self.names, ax)
    IN  IF PopError(tensor.shape, ax) THEN [err |-> "IndexError"]
        ELSE IF r.err # "" THEN r
        ELSE [err |-> "", value |-> r.value,
              batch_size |-> <<RemoveAt(tensor.shape, NormDim(ax, Len(tensor.shape)))>>]

Packer_unpack_simple(self, tensor, axis) ==
    LET r == _unpack(tensor, self.names, IF axis # None THEN axis[1] ELSE self.axis_unpack)
    IN  IF r.err # "" THEN r ELSE [err |-> "", value |-> r.value, batch_size |-> None]

(***************************************************************************)
(* A Packer used: pack, then unpack or unpack_simple                       *)
(***************************************************************************)
NameUniverse == <<"a", "b", "c">>

\* the declared name lists: empty, one name, two, three, a repeated name
NameLists == {<<>>, <<"a">>, <<"b", "a">>, <<"a", "c", "b">>, <<"a", "b", "a">>}

\* the tensor of a name: its values tell the name and the position
NamedTensor(n) ==
    LET j == CHOOSE i \in 1..Len(NameUniverse) : NameUniverse[i] = n
    IN  Tensor(<<NLat, NLon>>, [i \in 1..(NLat * NLon) |-> R(100 * j + i)])

Range(f) == {f[i] : i \in DOMAIN f}

\* the dicts with the key set S, in every insertion order
DictsOver(S) ==
    {[i \in 1..Cardinality(S) |-> [k |-> order[i], v |-> NamedTensor(order[i])]] :
        order \in {o \in [1..Cardinality(S) -> S] : Range(o) = S}}

\* the mappings handed to pack: the declared names in every insertion order,
\* with one more key, or with the first declared name missing
Mappings(names) ==
    DictsOver(Range(names))
    \cup (IF Len(names) = 2 THEN DictsOver(Range(names) \cup {"c"}) ELSE {})
    \cup (IF names # <<>> THEN DictsOver(Range(names) \ {names[1]}) ELSE {})

\* the axis arguments: None, the valid axes of a stack of grid tensors, one
\* axis out of range
AxisChoices == {None} \cup {<<a>> : a \in -3..3}

InitPacker ==
    \E names \in NameLists, axis \in AxisChoices, axis_pack \in {None, <<0>>, <<-3>>},
       axis_unpack \in {None, <<0>>, <<1>>} :
        /\ Packer(names, axis, axis_pack, axis_unpack).err = ""
        /\ \E tensors \in Mappings(names) :
               pk = [pc |-> "pack", self |-> Packer(names, axis, axis_pack, axis_unpack),
                     tensors |-> tensors, pack_axis |-> None, unpack_axis |-> None,
                     packed |-> None, result |-> None, batch_size |-> None, err |-> ""]
        /\ heap = <<>>
        /\ sg = Idle
        /\ ds = Idle
        /\ metric = Idle
        /\ model = Idle
        /\ corrector = Idle
        /\ cc = Idle
        /\ stepper = Idle
        /\ rb = Idle
        /\ view = Idle
        /\ ns = Idle
        /\ calls = Idle

\* the axis an optional argument and the default of the object resolve to
ResolveAxis(axis, default) == IF axis # None THEN axis[1] ELSE default

Pack ==
    /\ pk.pc = "pack"
    /\ \E axis \in {None, <<-1>>, <<1>>} :
           LET r == Packer_pack(pk.self, pk.tensors, axis)
           IN  pk' = IF r.err # ""
                     THEN [pk EXCEPT !.pc = "raised", !.err = r.err,
                                     !.pack_axis = <<ResolveAxis(axis, pk.self.axis_pack)>>]
                     ELSE [pk EXCEPT !.pc = "unpack", !.packed = <<r.value>>,
                                     !.pack_axis = <<ResolveAxis(axis, pk.self.axis_pack)>>]
    /\ UNCHANGED <<heap, corrector, cc, stepper, rb, view, ns, calls, sg, ds, metric, model>>

\* the frame after unpack or unpack_simple returned or raised r
Unpacked(r, axis) ==
    IF r.err # ""
    THEN [pk EXCEPT !.pc = "raised", !.err = r.err,
                    !.unpack_axis = <<ResolveAxis(axis, pk.self.axis_unpack)>>]
    ELSE [pk EXCEPT !.pc = "done", !.result = <<r.value>>, !.batch_size = r.batch_size,
                    !.unpack_axis = <<ResolveAxis(axis, pk.self.axis_unpack)>>]

Unpack ==
    /\ pk.pc = "unpack"
    /\ \E axis \in {None, <<-1>>, <<1>>} :
           pk' = Unpacked(Packer_unpack(pk.self, pk.packed[1], axis), axis)
    /\ UNCHANGED <<heap, corrector, cc, stepper, rb, view, ns, calls, sg, ds, metric, model>>

UnpackSimple ==
    /\ pk.pc = "unpack"
    /\ \E axis \in {None, <<-1>>, <<1>>} :
           pk' = Unpacked(Packer_unpack_simple(pk.self, pk.packed[1], axis), axis)
    /\ UNCHANGED <<heap, corrector, cc, stepper, rb, view, ns, calls, sg, ds, metric, model>>

NextPacker ==
    \/ Pack
    \/ Unpack
    \/ UnpackSimple

SpecPacker == InitPacker /\ [][NextPacker]_vars

(***************************************************************************)
(* Properties of the packer                                                *)
(***************************************************************************)
ValidStackAxis(axis) == axis >= -(Len(<<NLat, NLon>>) + 1) /\ axis <= Len(<<NLat, NLon>>)

\* a non-empty declared name list, a mapping with exactly these keys, a valid
\* axis
C4_Domain ==
    /\ pk.self.names # <<>>
    /\ KeySet(pk.tensors) = Range(pk.self.names)
    /\ ValidStackAxis(pk.pack_axis[1])

\* C4: for a non-empty declared name list, a mapping with exactly these keys
\* and a valid axis, pack returns a tensor whose channel i along the axis is
\* the tensor of the i-th declared name whatever the insertion order of the
\* mapping, and unpack and unpack_simple along the same axis return a mapping
\* with exactly the declared names, each with the same tensor as in the
\* mapping packed; unpack reports the shape of the tensors as batch size.
C4_RoundTrip ==
    (pk.pc # "pack" /\ C4_Domain) =>
        /\ pk.pc # "raised" \/ pk.unpack_axis # None
        /\ pk.packed # None =>
               \A i \in 1..Len(pk.self.names) :
                   Select(pk.packed[1], pk.pack_axis[1], i - 1)
                       = Get(pk.tensors, pk.self.names[i])
        /\ (pk.unpack_axis # None /\ pk.unpack_axis = pk.pack_axis) =>
               /\ pk.pc = "done"
               /\ KeySet(pk.result[1]) = Range(pk.self.names)
               /\ Len(pk.result[1]) = Cardinality(Range(pk.self.names))
               /\ \A n \in Range(pk.self.names) : Get(pk.result[1], n) = Get(pk.tensors, n)
               /\ pk.batch_size \in {None, <<(<<NLat, NLon>>)>>}

\* a round trip of three names given in another order than declared
C4_Witness ==
    /\ pk.pc = "done"
    /\ C4_Domain
    /\ pk.unpack_axis = pk.pack_axis
    /\ Len(pk.self.names) = Len(NameUniverse)
    /\ Keys(pk.tensors) # pk.self.names
    /\ pk.batch_size # None

\* the items of the mapping packed whose keys are declared names
DeclaredItems == SelectSeq(pk.tensors, LAMBDA item : item.k \in Range(pk.self.names))

\* C20: pack raises KeyError and returns nothing when a declared name is not
\* a key of the mapping, whatever the axis; a tensor pack returns has one
\* channel for every declared name, the tensor of that name; keys that are
\* not declared names change neither the tensor nor the error of pack.
C20_MissingName ==
    pk.pc # "pack" =>
        /\ (\E n \in Range(pk.self.names) : ~HasKey(pk.tensors, n)) =>
              /\ pk.pc = "raised"
              /\ pk.err = "KeyError"
              /\ pk.packed = None
        /\ pk.packed # None =>
              /\ \A n \in Range(pk.self.names) : HasKey(pk.tensors, n)
              /\ pk.packed[1].shape[NormDim(pk.pack_axis[1], Len(pk.packed[1].shape))]
                     = Len(pk.self.names)
              /\ \A i \in 1..Len(pk.self.names) :
                     Select(pk.packed[1], pk.pack_axis[1], i - 1)
                         = Get(pk.tensors, pk.self.names[i])
              /\ Packer_pack(pk.self, DeclaredItems, pk.pack_axis) 
                     = [err |-> "", value |-> pk.packed[1]]
        /\ (pk.pc = "raised" /\ pk.unpack_axis = None) =>
              Packer_pack(pk.self, DeclaredItems, pk.pack_axis).err = pk.err

\* pack has raised for a mapping that holds all declared names but the first
C20_Witness ==
    /\ pk.pc = "raised"
    /\ pk.err = "KeyError"
    /\ Len(pk.self.names) > 1
    /\ ~HasKey(pk.tensors, pk.self.names[1])
    /\ \A i \in 2..Len(pk.self.names) :
           pk.self.names[i] # pk.self.names[1] => HasKey(pk.tensors, pk.self.names[i])

\* pack has returned for a mapping with a key that is not a declared name
C20_WitnessExtraKey ==
    /\ pk.packed # None
    /\ KeySet(pk.tensors) \ Range(pk.self.names) # {}

(***************************************************************************)
(* stepper.py.  The normalizer, the ocean, the network and the loss are    *)
(* collaborators of run_on_batch whose code is not among the sources: a    *)
(* per-field affine normalizer, an ocean that overwrites its target names  *)
(* with the target values, a network that is a fixed function of its input *)
(* tensor, an absolute-error loss.  A call returns [err, value].           *)
(***************************************************************************)
Ok(value) == [err |-> "", value |-> value]

Err(err) == [err |-> err]

MapValues(d, f(_, _)) ==
    Tuple([i \in 1..Len(d) |-> [k |-> d[i].k, v |-> f(d[i].k, d[i].v)]])

\* StandardNormalizer.normalize: (tensor - mean) / std for every key
normalize(normalizer, tensors) ==
    MapValues(tensors, LAMBDA k, t : TDiv(TSub(t, Scalar(normalizer.means[k])),
                                         Scalar(normalizer.stds[k])))

\* StandardNormalizer.denormalize: tensor * std + mean for every key
denormalize(normalizer, tensors) ==
    MapValues(tensors, LAMBDA k, t : TAdd(TMul(t, Scalar(normalizer.stds[k])),
                                         Scalar(normalizer.means[k])))

\* the values of names in a mapping at one time index: KeyError for an
\* absent name, ValueError for a time index the tensor does not have
RECURSIVE QueryNames(_, _, _, _, _)
QueryNames(_data, names, time_index, time_dim, query_results) ==
    IF names = <<>> THEN Ok(query_results)
    ELSE IF ~HasKey(_data, Head(names)) THEN Err("KeyError")
    ELSE IF SelectError(Get(_data, Head(names)), time_dim, time_index) # ""
    THEN Err("ValueError")
    ELSE QueryNames(_data, Tail(names), time_index, time_dim,
                    Put(query_results, Head(names),
                        Select(Get(_data, Head(names)), time_dim, time_index)))

\* the query answered for the names the mapping holds, the others left out
name_and_time_query_fn_present(data, data_norm, time_dim, names, time_index, norm_mode) ==
    QueryNames(IF norm_mode = "norm" THEN data_norm ELSE data,
               SelectSeq(names, LAMBDA n : HasKey(data, n)), time_index, time_dim, <<>>)

\* get_name_and_time_query_fn(data, data_norm, time_dim)(names, time_index, norm_mode)
name_and_time_query_fn(data, data_norm, time_dim, names, time_index, norm_mode) ==
    QueryNames(IF norm_mode = "norm" THEN data_norm ELSE data, names, time_index, time_dim,
               <<>>)

\* the packed tensor, None for a ValueError of pack, any other error raised
_pack_data_if_available(packer, data, axis) ==
    LET r == Packer_pack(packer, data, <<axis>>)
    IN  IF r.err = "ValueError" THEN Ok(None)
        ELSE IF r.err # "" THEN r
        ELSE Ok(<<r.value>>)

\* Ocean.__call__: gen_data with the target names overwritten by the targets
Ocean_call(ocean, target_data, input_data, gen_data) ==
    Tuple([i \in 1..Len(gen_data) |->
              IF HasKey(target_data, gen_data[i].k)
              THEN [k |-> gen_data[i].k, v |-> Get(target_data, gen_data[i].k)]
              ELSE gen_data[i]])

\* the members of an ensemble
NMember == 2

\* the network: a function from (sample, in channel, lat, lon) tensors to
\* (sample, out channel, lat, lon) tensors fixed by its weights; a network
\* of ensemble mode returns (member, sample, out channel, lat, lon)
Module_forward(module, n_out_channels, x) ==
    LET n_in  == x.shape[2]
        shape == <<x.shape[1], n_out_channels, x.shape[3], x.shape[4]>>
    IN  IF module = "ensemble"
        THEN Tensor(<<NMember>> \o shape, [i \in 1..(NMember * Numel(shape)) |->
                 LET idx == Unravel(i - 1, <<NMember>> \o shape)
                     src == At(x, <<idx[2], idx[3] % n_in, idx[4], idx[5]>>)
                 IN  RAdd(src, R(2 * idx[1] + idx[3] + 1))])
        ELSE Tensor(shape, [i \in 1..Numel(shape) |->
                 LET idx == Unravel(i - 1, shape)
                     src == At(x, <<idx[1], idx[2] % n_in, idx[3], idx[4]>>)
                 IN  IF module = "shift" THEN RAdd(src, R(idx[2] + 1))
                     ELSE RSub(RDiv(src, R(2)), R(idx[2]))])

RAbs(a) == <<Abs(a[1]), a[2]>>

\* the sum of the absolute values of the entries of a tensor
SumAbs(t) == RSum([i \in 1..Len(t.data) |-> RAbs(t.data[i])])

\* the loss: the sum of the absolute errors, the target broadcast
loss_obj(gen, target) == SumAbs(TSub(gen, target))

\* SingleModuleStepper.__init__: the packers on the channel axis -3, the
\* collaborators of the configuration
SingleModuleStepper(config) ==
    [in_packer |-> Packer(config.in_names, <<-3>>, None, None),
     out_packer |-> Packer(config.out_names, <<-3>>, None, None),
     normalizer |-> config.normalization,
     ocean |-> config.ocean,
     module |-> config.builder,
     _corrector |-> config.corrector]

\* SingleModuleStepperConfig.all_names: the in-names, the out-names, the names
\* of the ocean
all_names(self) ==
    Range(self.in_packer.names) \cup Range(self.out_packer.names)
    \cup (IF self.ocean # None THEN Range(self.ocean[1].target_names) ELSE {})

\* SingleModuleStepper.get_data_requirements
get_data_requirements(self, n_forward_steps) ==
    [names |-> all_names(self), n_timesteps |-> n_forward_steps + 1]

(***************************************************************************)
(* Inputs of run_on_batch                                                  *)
(***************************************************************************)
\* the time entries of a batch
NTime == MaxForwardSteps + 1

FieldNames == <<"DSWRFtoa", "TMP2m", "HGTsfc", "PRATEsfc", ADV>>

FieldIndex(name) == CHOOSE j \in 1..Len(FieldNames) : FieldNames[j] = name

\* the batch: every field over (sample, time, lat, lon)
BatchData ==
    [j \in 1..Len(FieldNames) |->
        [k |-> FieldNames[j],
         v |-> Tensor(<<NSample, NTime, NLat, NLon>>,
                      [i \in 1..(NSample * NTime * NLat * NLon) |-> R((5 * j + i) % 7)])]]

\* a batch without some fields
Without(data, names) == SelectSeq(data, LAMBDA item : item.k \notin names)

\* a tensor over (sample, time, lat, lon) with its first n time entries only
FirstTimes(t, n) ==
    Tensor(<<t.shape[1], n, t.shape[3], t.shape[4]>>,
           [i \in 1..(t.shape[1] * n * t.shape[3] * t.shape[4]) |->
               At(t, Unravel(i - 1, <<t.shape[1], n, t.shape[3], t.shape[4]>>))])

\* a batch whose fields names have n time entries only
Truncated(data, names, n) ==
    [j \in 1..Len(data) |->
        IF data[j].k \in names THEN [k |-> data[j].k, v |-> FirstTimes(data[j].v, n)]
        ELSE data[j]]

\* the batches given to run_on_batch: complete; without the fields that are
\* outputs only; with the initial condition of the outputs only; without a
\* forcing field; with a forcing field that ends one time entry early
Batches ==
    {BatchData,
     Without(BatchData, {ADV, "PRATEsfc"}),
     Truncated(BatchData, {ADV, "PRATEsfc", "TMP2m"}, 1),
     Without(BatchData, {"HGTsfc"}),
     Truncated(BatchData, {"DSWRFtoa"}, NTime - 1)}

\* mean j and standard deviation 1 or 2 for field j
Normalization ==
    [means |-> [name \in Range(FieldNames) |-> R(FieldIndex(name))],
     stds  |-> [name \in Range(FieldNames) |-> R(1 + (FieldIndex(name) % 2))]]

\* the corrector of the rollout: none, all stages disabled, zero advection
RolloutCorrectors ==
    {None}
    \cup {<<[config |-> [conserve_dry_air |-> FALSE,
                         zero_global_mean_moisture_advection |-> z,
                         moisture_budget_correction |-> "None"],
             area |-> area, sigma_coordinates |-> SigmaCoordinates]>> :
            z \in BOOLEAN, area \in {a \in AreaChoices : a.data[1] # a.data[NLat * NLon]}}

StepperConfigs ==
    [in_names : {<<"DSWRFtoa", "TMP2m", "HGTsfc">>},
     out_names : {<<ADV, "TMP2m">>, <<"TMP2m", "PRATEsfc">>},
     normalization : {Normalization},
     ocean : {None, <<[target_names |-> <<"TMP2m">>]>>},
     builder : {"shift", "half", "ensemble"},
     corrector : RolloutCorrectors]

channel_dim == -3

time_dim == 1

InitRollout ==
    \E config \in StepperConfigs, n_forward_steps \in 0..(MaxForwardSteps + 1),
       data \in Batches :
        /\ stepper = SingleModuleStepper(config)
        /\ rb = [pc |-> "start", data |-> data, n_forward_steps |-> n_forward_steps,
                 step |-> 0, full_data_norm |-> None, full_target_tensor_norm |-> None,
                 input_data_norm |-> None, gen_data_norm |-> <<>>,
                 input_tensor_norm |-> None, target_tensor_norm |-> None,
                 gen_tensor_norm |-> None, gen_norm |-> None, gen_data |-> None,
                 input_data |-> None, loss |-> R(0), metrics |-> <<>>, result |-> None,
                 err |-> "", trace |-> <<>>, reads |-> <<>>]
        /\ heap = <<>>
        /\ sg = Idle
        /\ ds = Idle
        /\ metric = Idle
        /\ model = Idle
        /\ corrector = Idle
        /\ cc = Idle
        /\ pk = Idle
        /\ view = Idle
        /\ ns = Idle
        /\ calls = Idle

(***************************************************************************)
(* run_on_batch step by step                                               *)
(***************************************************************************)
RaiseRollout(err) == [rb EXCEPT !.pc = "raised", !.err = err]

\* the trace with one more operation of the current step
Log(op, arg, out) ==
    Append(rb.trace, [op |-> op, step |-> rb.step, arg |-> arg, out |-> out])

\* the reads of the batch by time index so far with one more, made for the
\* current step
Read(what, time_index) ==
    Append(rb.reads, [what |-> what, step |-> rb.step, time_index |-> time_index])

\* the line after a pass of the loop head with step as the next index
LoopHead(step) == IF step < rb.n_forward_steps THEN "pack" ELSE "finalize"

get_input_data(names, time_index, norm_mode) ==
    name_and_time_query_fn(rb.data, rb.full_data_norm[1], time_dim, names, time_index,
                           norm_mode)

\* lines 510-528
Start ==
    /\ rb.pc = "start"
    /\ LET full_data_norm == normalize(stepper.normalizer, rb.data)
           target == _pack_data_if_available(stepper.out_packer, full_data_norm, channel_dim)
           input  == name_and_time_query_fn(rb.data, full_data_norm, time_dim,
                                            stepper.in_packer.names, 0, "norm")
       IN  rb' = IF target.err # "" THEN RaiseRollout(target.err)
                 ELSE IF input.err # ""
                 THEN [RaiseRollout(input.err) EXCEPT !.reads = Read("input", 0)]
                 ELSE [rb EXCEPT !.pc = LoopHead(0), !.step = 0,
                                 !.reads = Read("input", 0),
                                 !.full_data_norm = <<full_data_norm>>,
                                 !.full_target_tensor_norm = target.value,
                                 !.input_data_norm = <<input.value>>,
                                 !.gen_data_norm = <<>>]
    /\ UNCHANGED <<heap, corrector, cc, pk, stepper, view, ns, calls, sg, ds, metric, model>>

\* lines 530-535
PackInput ==
    /\ rb.pc = "pack"
    /\ LET packed == Packer_pack(stepper.in_packer, rb.input_data_norm[1], <<channel_dim>>)
           full   == rb.full_target_tensor_norm
       IN  rb' = IF packed.err # "" THEN RaiseRollout(packed.err)
                 ELSE IF full # None /\ SelectError(full[1], time_dim, rb.step + 1) # ""
                 THEN [RaiseRollout("IndexError") EXCEPT
                          !.reads = Read("target", rb.step + 1)]
                 ELSE [rb EXCEPT !.pc = "infer", !.input_tensor_norm = <<packed.value>>,
                                 !.reads = IF full = None THEN @
                                           ELSE Read("target", rb.step + 1),
                                 !.target_tensor_norm =
                                     IF full = None THEN None
                                     ELSE <<Select(full[1], time_dim, rb.step + 1)>>,
                                 !.trace = Log("pack", rb.input_data_norm[1], packed.value)]
    /\ UNCHANGED <<heap, corrector, cc, pk, stepper, view, ns, calls, sg, ds, metric, model>>

\* line 538
Infer ==
    /\ rb.pc = "infer"
    /\ LET gen_tensor_norm == Module_forward(stepper.module, Len(stepper.out_packer.names),
                                             rb.input_tensor_norm[1])
       IN  rb' = [rb EXCEPT !.pc = "unpack", !.gen_tensor_norm = <<gen_tensor_norm>>,
                            !.trace = Log("infer", rb.input_tensor_norm[1], gen_tensor_norm)]
    /\ UNCHANGED <<heap, corrector, cc, pk, stepper, view, ns, calls, sg, ds, metric, model>>

\* line 539
UnpackOutput ==
    /\ rb.pc = "unpack"
    /\ LET gen_norm == Packer_unpack(stepper.out_packer, rb.gen_tensor_norm[1],
                                     <<channel_dim>>)
       IN  rb' = IF gen_norm.err # "" THEN RaiseRollout(gen_norm.err)
                 ELSE [rb EXCEPT !.pc = "denormalize", !.gen_norm = <<gen_norm.value>>,
                                 !.trace = Log("unpack", rb.gen_tensor_norm[1],
                                               gen_norm.value)]
    /\ UNCHANGED <<heap, corrector, cc, pk, stepper, view, ns, calls, sg, ds, metric, model>>

\* lines 540-541
Denormalize ==
    /\ rb.pc = "denormalize"
    /\ LET gen_data == denormalize(stepper.normalizer, rb.gen_norm[1])
           input_data == denormalize(stepper.normalizer, rb.input_data_norm[1])
       IN  rb' = [rb EXCEPT !.pc = "correct", !.gen_data = <<gen_data>>,
                            !.input_data = <<input_data>>,
                            !.trace = Log("denormalize", rb.gen_norm[1], gen_data)]
    /\ UNCHANGED <<heap, corrector, cc, pk, stepper, view, ns, calls, sg, ds, metric, model>>

\* lines 542-543 with the generated state gen_data handed to the corrector
CorrectOn(gen_data) ==
    IF stepper._corrector = None THEN [rb EXCEPT !.pc = "ocean"]
    ELSE With(Corrector_call(stepper._corrector[1], <<rb.input_data[1], gen_data>>, 1, 2),
              LAMBDA r :
                  IF r.err # "" THEN RaiseRollout(r.err)
                  ELSE [rb EXCEPT !.pc = "ocean", !.gen_data = <<r.heap[r.data]>>,
                                  !.trace = Log("corrector", gen_data, r.heap[r.data])])

\* the corrector called with the normalized output of the network
Correct_OnNormalized ==
    /\ rb.pc = "correct"
    /\ rb' = CorrectOn(rb.gen_norm[1])
    /\ UNCHANGED <<heap, corrector, cc, pk, stepper, view, ns, calls, sg, ds, metric, model>>

Correct ==
    /\ rb.pc = "correct"
    /\ rb' = CorrectOn(rb.gen_data[1])
    /\ UNCHANGED <<heap, corrector, cc, pk, stepper, view, ns, calls, sg, ds, metric, model>>

\* line 545 with the targets of the time index after the next
ocean_target_data_Ahead(step) ==
    [time_index |-> step + 2]
    @@ get_input_data(stepper.ocean[1].target_names, step + 2, "denorm")

\* line 545: the target fields of the ocean and the time index they are read at
ocean_target_data(step) ==
    [time_index |-> step + 1]
    @@ get_input_data(stepper.ocean[1].target_names, step + 1, "denorm")

\* lines 544-546
Prescribe ==
    /\ rb.pc = "ocean"
    /\ IF stepper.ocean = None THEN rb' = [rb EXCEPT !.pc = "renormalize"]
       ELSE LET target_data == ocean_target_data(rb.step)
            IN  rb' = IF target_data.err # ""
                      THEN [RaiseRollout(target_data.err) EXCEPT
                               !.reads = Read("ocean", target_data.time_index)]
                      ELSE LET gen_data == Ocean_call(stepper.ocean[1], target_data.value,
                                                      rb.input_data[1], rb.gen_data[1])
                           IN  [rb EXCEPT !.pc = "renormalize", !.gen_data = <<gen_data>>,
                                          !.reads = Read("ocean", target_data.time_index),
                                          !.trace = Log("ocean", rb.gen_data[1], gen_data)]
    /\ UNCHANGED <<heap, corrector, cc, pk, stepper, view, ns, calls, sg, ds, metric, model>>

\* line 547
Renormalize ==
    /\ rb.pc = "renormalize"
    /\ LET gen_norm == normalize(stepper.normalizer, rb.gen_data[1])
       IN  rb' = [rb EXCEPT !.pc = "loss", !.gen_norm = <<gen_norm>>,
                            !.trace = Log("renormalize", rb.gen_data[1], gen_norm)]
    /\ UNCHANGED <<heap, corrector, cc, pk, stepper, view, ns, calls, sg, ds, metric, model>>

\* line 553 with the loss of the step in the place of the sum
AccumulateLoss_Last(loss, step_loss) == step_loss

\* line 553
AccumulateLoss(loss, step_loss) == RAdd(loss, step_loss)

\* lines 548-554
StepLoss ==
    /\ rb.pc = "loss"
    /\ LET packed == Packer_pack(stepper.out_packer, rb.gen_norm[1], <<channel_dim>>)
       IN  rb' = IF packed.err # "" THEN RaiseRollout(packed.err)
                 ELSE LET step_loss == IF rb.target_tensor_norm = None THEN NaN
                                       ELSE loss_obj(packed.value, rb.target_tensor_norm[1])
                      IN  [rb EXCEPT !.pc = "unpack_generated",
                                     !.gen_tensor_norm = <<packed.value>>,
                                     !.loss = AccumulateLoss(@, step_loss),
                                     !.metrics = Append(@, [k |-> "loss_step_"
                                                                    \o ToString(rb.step),
                                                            v |-> step_loss])]
    /\ UNCHANGED <<heap, corrector, cc, pk, stepper, view, ns, calls, sg, ds, metric, model>>

\* lines 555-556
AppendGenerated ==
    /\ rb.pc = "unpack_generated"
    /\ LET gen_norm == Packer_unpack(stepper.out_packer, rb.gen_tensor_norm[1],
                                     <<channel_dim>>)
       IN  rb' = IF gen_norm.err # "" THEN RaiseRollout(gen_norm.err)
                 ELSE [rb EXCEPT !.pc = "next_input", !.gen_norm = <<gen_norm.value>>,
                                 !.gen_data_norm = Append(@, gen_norm.value)]
    /\ UNCHANGED <<heap, corrector, cc, pk, stepper, view, ns, calls, sg, ds, metric, model>>

\* line 559 with the forcing fields of the time index of this step
forcing_data_norm_AtStep(forcing_names, step) ==
    [time_index |-> step] @@ get_input_data(forcing_names, step, "norm")

\* line 559
forcing_data_norm(forcing_names, step) ==
    [time_index |-> step + 1] @@ get_input_data(forcing_names, step + 1, "norm")

\* {**a, **b}
Merge(a, b) == DictOf(a \o b, <<>>)

\* lines 558-560; the list of a set has any order
NextInput ==
    /\ rb.pc = "next_input"
    /\ LET forcing == Range(stepper.in_packer.names) \ KeySet(rb.gen_norm[1])
       IN  \E forcing_names \in {o \in [1..Cardinality(forcing) -> forcing] :
                                    Range(o) = forcing} :
               LET forcing_data == forcing_data_norm(forcing_names, rb.step)
               IN  rb' = IF forcing_data.err # ""
                         THEN [RaiseRollout(forcing_data.err) EXCEPT
                                  !.reads = Read("forcing", forcing_data.time_index)]
                         ELSE LET input_data_norm == Merge(forcing_data.value, rb.gen_norm[1])
                              IN  [rb EXCEPT !.pc = LoopHead(rb.step + 1),
                                             !.step = rb.step + 1,
                                             !.reads = Read("forcing",
                                                            forcing_data.time_index),
                                             !.input_data_norm = <<input_data_norm>>,
                                             !.trace = Log("next_input", rb.gen_norm[1],
                                                           input_data_norm)]
    /\ UNCHANGED <<heap, corrector, cc, pk, stepper, view, ns, calls, sg, ds, metric, model>>

\* line 564 with the initial condition left out
PrependInitial_Dropped(initial, gen_data_norm) == gen_data_norm

\* line 564
PrependInitial(initial, gen_data_norm) == <<initial>> \o gen_data_norm

\* lines 565-567: every name stacked over the list along the time dimension
RECURSIVE Timeseries(_, _, _)
Timeseries(gen_data_norm, names, gen_data_norm_timeseries) ==
    IF names = <<>> THEN Ok(gen_data_norm_timeseries)
    ELSE IF \E i \in 1..Len(gen_data_norm) : ~HasKey(gen_data_norm[i], Head(names))
    THEN Err("KeyError")
    ELSE LET list == [i \in 1..Len(gen_data_norm) |-> Get(gen_data_norm[i], Head(names))]
         IN  IF StackError(list, time_dim) # "" THEN Err(StackError(list, time_dim))
             ELSE Timeseries(gen_data_norm, Tail(names),
                             Put(gen_data_norm_timeseries, Head(names),
                                 Stack(list, time_dim)))

\* the conservation loss: a penalty on the whole generated timeseries, the sum
\* of the absolute values of its entries, returned as a metric and as the loss
conservation_loss(gen_data) ==
    With(RSum([j \in 1..Len(gen_data) |-> SumAbs(gen_data[j].v)]),
         LAMBDA total : [metrics |-> <<[k |-> "conservation_loss", v |-> total]>>,
                         loss |-> total])

\* lines 563-591
Finalize ==
    /\ rb.pc = "finalize"
    /\ LET initial == get_input_data(stepper.out_packer.names, 0, "norm")
       IN  IF initial.err # ""
           THEN rb' = [RaiseRollout(initial.err) EXCEPT !.reads = Read("initial", 0)]
           ELSE LET series == Timeseries(PrependInitial(initial.value, rb.gen_data_norm),
                                         stepper.out_packer.names, <<>>)
                IN  IF series.err # ""
                    THEN rb' = [RaiseRollout(series.err) EXCEPT
                                   !.reads = Read("initial", 0)]
                    ELSE LET gen_data == denormalize(stepper.normalizer, series.value)
                             conservation == conservation_loss(gen_data)
                             loss == RAdd(rb.loss, conservation.loss)
                         IN  rb' = [rb EXCEPT
                                 !.pc = "done", !.loss = loss,
                                 !.reads = Read("initial", 0),
                                 !.gen_data = <<gen_data>>,
                                 !.result =
                                     <<[metrics |-> rb.metrics \o conservation.metrics
                                                    \o <<[k |-> "loss", v |-> loss]>>,
                                        gen_data |-> gen_data,
                                        target_data |-> rb.data,
                                        gen_data_norm |-> series.value,
                                        target_data_norm |-> rb.full_data_norm[1]]>>]
    /\ UNCHANGED <<heap, corrector, cc, pk, stepper, view, ns, calls, sg, ds, metric, model>>

NextRollout ==
    \/ Start
    \/ PackInput
    \/ Infer
    \/ UnpackOutput
    \/ Denormalize
    \/ Correct
    \/ Prescribe
    \/ Renormalize
    \/ StepLoss
    \/ AppendGenerated
    \/ NextInput
    \/ Finalize

SpecRollout == InitRollout /\ [][NextRollout]_vars

(***************************************************************************)
(* Properties of run_on_batch                                              *)
(***************************************************************************)
\* the operations of one forward step, in the order of lines 530-560
StepOps ==
    <<"pack", "infer", "unpack", "denormalize">>
    \o (IF stepper._corrector # None THEN <<"corrector">> ELSE <<>>)
    \o (IF stepper.ocean # None THEN <<"ocean">> ELSE <<>>)
    \o <<"renormalize", "next_input">>

\* the entry of the trace of one operation of one forward step
TraceOf(op, step) ==
    rb.trace[CHOOSE i \in 1..Len(rb.trace) : rb.trace[i].op = op /\ rb.trace[i].step = step]

Traced(op, step) ==
    \E i \in 1..Len(rb.trace) : rb.trace[i].op = op /\ rb.trace[i].step = step

\* the renormalized output of a forward step
StepOutput(step) == TraceOf("renormalize", step).out

\* the generated state of a forward step after corrector and prescriber
FinalState(step) ==
    IF stepper.ocean # None THEN TraceOf("ocean", step).out
    ELSE IF stepper._corrector # None THEN TraceOf("corrector", step).out
    ELSE TraceOf("denormalize", step).out

\* the batch's normalized value of a field at a time index
TrueNormalized(name, time_index) ==
    Get(normalize(stepper.normalizer,
                  <<[k |-> name, v |-> Select(Get(rb.data, name), time_dim, time_index)]>>),
        name)

\* one normalized field in physical units
Denormalized(name, tensor) ==
    Get(denormalize(stepper.normalizer, <<[k |-> name, v |-> tensor]>>), name)

\* C1: when run_on_batch returns for n_forward_steps = k, the normalized and
\* the denormalized timeseries of every out-name have k + 1 entries along the
\* time axis; entry 0 is the batch's normalized value of the name at time
\* index 0 and entry s + 1 is the renormalized output of forward step s (in
\* physical units in the denormalized series).
C1_RolloutLength ==
    rb.pc = "done" =>
        LET result == rb.result[1]
            k      == rb.n_forward_steps
        IN  /\ Keys(result.gen_data_norm) = stepper.out_packer.names
            /\ Keys(result.gen_data) = stepper.out_packer.names
            /\ \A name \in Range(stepper.out_packer.names) :
                  LET norm   == Get(result.gen_data_norm, name)
                      denorm == Get(result.gen_data, name)
                  IN  /\ norm.shape[time_dim + 1] = k + 1
                      /\ denorm.shape[time_dim + 1] = k + 1
                      /\ Select(norm, time_dim, 0) = TrueNormalized(name, 0)
                      /\ Select(denorm, time_dim, 0)
                             = Denormalized(name, TrueNormalized(name, 0))
                      /\ \A s \in 0..(k - 1) :
                            /\ Select(norm, time_dim, s + 1) = Get(StepOutput(s), name)
                            /\ Select(denorm, time_dim, s + 1)
                                   = Denormalized(name, Get(StepOutput(s), name))

\* a rollout of MaxForwardSteps steps has returned
C1_Witness ==
    /\ rb.pc = "done"
    /\ rb.n_forward_steps = MaxForwardSteps
    /\ Len(rb.gen_data_norm) = MaxForwardSteps

\* C2: the input mapping built after forward step s holds, for every in-name,
\* the renormalized final state of step s (after corrector and prescriber) if
\* the name is an out-name, and the batch's normalized value at time index
\* s + 1 otherwise; it is the mapping step s + 1 packs.
C2_NextInput ==
    \A i \in 1..Len(rb.trace) :
        rb.trace[i].op = "next_input" =>
            LET s    == rb.trace[i].step
                next == rb.trace[i].out
            IN  /\ StepOutput(s) = normalize(stepper.normalizer, FinalState(s))
                /\ \A x \in Range(stepper.in_packer.names) :
                      /\ HasKey(next, x)
                      /\ Get(next, x) = IF x \in Range(stepper.out_packer.names)
                                        THEN Get(StepOutput(s), x)
                                        ELSE TrueNormalized(x, s + 1)
                /\ Traced("pack", s + 1) => TraceOf("pack", s + 1).arg = next
                /\ i = Len(rb.trace) /\ rb.pc # "raised" => rb.input_data_norm[1] = next

\* the input of a second forward step was built and packed, with a forcing
\* field and a generated field among the in-names
C2_Witness ==
    /\ Traced("next_input", 0)
    /\ Traced("pack", 1)
    /\ Range(stepper.in_packer.names) \ Range(stepper.out_packer.names) # {}
    /\ Range(stepper.in_packer.names) \cap Range(stepper.out_packer.names) # {}
    /\ stepper.ocean # None

\* C3: the trace of run_on_batch is the sequence of the forward steps 0, 1, ...
\* each one the operations pack, infer, unpack, denormalize, corrector (if
\* configured), ocean (if configured), renormalize, next input, once and in
\* this order; every operation works on the result of the one before it, so
\* corrector and ocean receive denormalized states; a rollout that returns
\* has run exactly n_forward_steps steps.
C3_StepOrder ==
    LET L == Len(StepOps)
    IN  /\ Len(rb.trace) <= rb.n_forward_steps * L
        /\ rb.pc \in {"finalize", "done"} => Len(rb.trace) = rb.n_forward_steps * L
        /\ \A i \in 1..Len(rb.trace) :
              /\ rb.trace[i].op = StepOps[((i - 1) % L) + 1]
              /\ rb.trace[i].step = (i - 1) \div L
              /\ i > 1 =>
                    IF rb.trace[i].op \in {"next_input", "pack"}
                    THEN DictEq(rb.trace[i].arg, rb.trace[i - 1].out)
                    ELSE rb.trace[i].arg = rb.trace[i - 1].out
              /\ rb.trace[i].op = "denormalize" =>
                    rb.trace[i].out = denormalize(stepper.normalizer, rb.trace[i].arg)

\* a rollout of MaxForwardSteps steps with a corrector and an ocean has returned
C3_Witness ==
    /\ rb.pc = "done"
    /\ rb.n_forward_steps = MaxForwardSteps
    /\ stepper._corrector # None
    /\ stepper.ocean # None
    /\ Traced("corrector", MaxForwardSteps - 1)
    /\ Traced("ocean", MaxForwardSteps - 1)

\* the normalized targets of the out-names at a time index, packed
TargetTensor(time_index) ==
    Packer_pack(stepper.out_packer,
                [j \in 1..Len(stepper.out_packer.names) |->
                    [k |-> stepper.out_packer.names[j],
                     v |-> TrueNormalized(stepper.out_packer.names[j], time_index)]],
                <<channel_dim>>).value

\* the renormalized output of a forward step, packed
OutputTensor(step) ==
    Packer_pack(stepper.out_packer, StepOutput(step), <<channel_dim>>).value

\* the loss of a forward step: its output against the targets of the next
\* time index
LossOfStep(step) == loss_obj(OutputTensor(step), TargetTensor(step + 1))

StepLossKey(step) == "loss_step_" \o ToString(step)

\* C16: the metrics of a returned rollout of k steps hold loss_step_s, the
\* loss of step s, for every s in 0..k-1 and for no other s, and the final
\* loss is the sum of the k step losses plus the conservation loss of the
\* whole generated timeseries: the conservation loss alone for k = 0.
C16_FinalLoss ==
    rb.pc = "done" =>
        LET metrics == rb.result[1].metrics
            k       == rb.n_forward_steps
            penalty == conservation_loss(rb.result[1].gen_data).loss
        IN  /\ \A s \in 0..(MaxForwardSteps + 1) :
                  IF s < k
                  THEN /\ HasKey(metrics, StepLossKey(s))
                       /\ Get(metrics, StepLossKey(s)) = LossOfStep(s)
                  ELSE ~HasKey(metrics, StepLossKey(s))
            /\ Get(metrics, "loss")
                   = RAdd(RSum([s \in 1..k |-> LossOfStep(s - 1)]), penalty)
            /\ k = 0 => Get(metrics, "loss") = penalty

\* a rollout of MaxForwardSteps steps has returned with a loss at its first
\* step, another at its last step and a conservation loss, none of them zero
C16_Witness ==
    /\ rb.pc = "done"
    /\ rb.n_forward_steps = MaxForwardSteps
    /\ MaxForwardSteps > 1
    /\ ~IsZero(Get(rb.result[1].metrics, StepLossKey(0)))
    /\ ~IsZero(Get(rb.result[1].metrics, StepLossKey(MaxForwardSteps - 1)))
    /\ ~IsZero(Get(rb.result[1].metrics, "conservation_loss"))

\* the batch holds no target of the out-names: a field that is an output is
\* absent from it, or has its initial condition only
NoTarget ==
    \E name \in Range(stepper.out_packer.names) :
        \/ ~HasKey(rb.data, name)
        \/ Get(rb.data, name).shape[time_dim + 1] = 1

\* C17: on a batch with no target of the out-names run_on_batch does not
\* fail; it runs n_forward_steps steps and the loss of every step is NaN.
\* (No corrector, no prescriber, a network of one member, no more steps than
\* the forcing fields have time entries for.)
C17_NoTargetRuns ==
    (/\ NoTarget
     /\ \A name \in Range(stepper.in_packer.names) : HasKey(rb.data, name)
     /\ stepper._corrector = None
     /\ stepper.ocean = None
     /\ stepper.module # "ensemble"
     /\ rb.n_forward_steps <= MaxForwardSteps)
        => /\ rb.pc # "raised"
           /\ rb.pc = "done" =>
                 /\ Len(rb.trace) = rb.n_forward_steps * Len(StepOps)
                 /\ \A s \in 0..(rb.n_forward_steps - 1) :
                       IsNaN(Get(rb.result[1].metrics, StepLossKey(s)))

\* the time entries the batch has of a field
TimeEntries(name) == Get(rb.data, name).shape[time_dim + 1]

\* the in-names the network does not predict
ForcingNames == Range(stepper.in_packer.names) \ Range(stepper.out_packer.names)

\* C18: the network runs at step s on the packed values of all in-names only,
\* each the renormalized output of step s - 1 if the name is an out-name (and
\* s > 0) and the batch's normalized value at time index s otherwise.  With an
\* in-name absent from the batch run_on_batch raises at the seeding, before
\* any step; with a forcing field that has no value at time index s + 1 it
\* raises when the input of step s + 1 is built, and no step s + 1 starts.
C18_MissingInName ==
    /\ \A i \in 1..Len(rb.trace) :
          rb.trace[i].op = "infer" =>
              LET s     == rb.trace[i].step
                  input == TraceOf("pack", s).arg
              IN  /\ \A x \in Range(stepper.in_packer.names) : HasKey(rb.data, x)
                  /\ \A x \in ForcingNames : s < TimeEntries(x)
                  /\ \A j \in 1..Len(stepper.in_packer.names) :
                        LET x == stepper.in_packer.names[j]
                            v == IF s > 0 /\ x \in Range(stepper.out_packer.names)
                                 THEN Get(StepOutput(s - 1), x)
                                 ELSE TrueNormalized(x, s)
                        IN  /\ HasKey(input, x)
                            /\ Get(input, x) = v
                            /\ Select(rb.trace[i].arg, channel_dim, j - 1) = v
    /\ (\E x \in Range(stepper.in_packer.names) : ~HasKey(rb.data, x)) =>
          /\ rb.pc \in {"start", "raised"}
          /\ rb.trace = <<>>
    /\ \A x \in ForcingNames :
          HasKey(rb.data, x) =>
              /\ rb.step < TimeEntries(x)
              /\ rb.pc \in {"finalize", "done"} => rb.n_forward_steps < TimeEntries(x)

\* a rollout has raised at the seeding for an in-name that is neither an
\* out-name nor a field of the batch
C18_Witness ==
    /\ rb.pc = "raised"
    /\ rb.err = "KeyError"
    /\ rb.trace = <<>>
    /\ \E x \in ForcingNames : ~HasKey(rb.data, x)

\* a rollout has raised after its second step for a forcing field without a
\* value at the next time index
C18_WitnessLaterStep ==
    /\ rb.pc = "raised"
    /\ rb.err = "ValueError"
    /\ Traced("infer", 1)
    /\ \E x \in ForcingNames : TimeEntries(x) = rb.step + 1

\* the mean of a tensor over its leading axis
MemberMean(t) ==
    LET shape == Tail(t.shape)
        n     == Numel(shape)
    IN  Tensor(shape, [i \in 1..n |->
            RDiv(RSum([m \in 1..t.shape[1] |-> t.data[(m - 1) * n + i]]), R(t.shape[1]))])

\* C19: with a network of ensemble mode and a complete batch, a rollout of
\* 1..MaxForwardSteps steps returns; every generated series keeps the member
\* axis, the input built after a step holds for the predicted names the mean
\* over the members of the step's output, and the loss of a step compares
\* the mean over the members with the target.  (No corrector.)
C19_EnsembleMean ==
    (/\ stepper.module = "ensemble"
     /\ stepper._corrector = None
     /\ rb.data = BatchData
     /\ rb.n_forward_steps \in 1..MaxForwardSteps)
        => /\ rb.pc # "raised"
           /\ \A i \in 1..Len(rb.trace) :
                 rb.trace[i].op = "next_input" =>
                     \A x \in Range(stepper.in_packer.names)
                                 \cap Range(stepper.out_packer.names) :
                         Get(rb.trace[i].out, x)
                             = MemberMean(Get(StepOutput(rb.trace[i].step), x))
           /\ rb.pc = "done" =>
                 /\ \A name \in Range(stepper.out_packer.names) :
                       /\ Len(Get(rb.result[1].gen_data_norm, name).shape) = 5
                       /\ Get(rb.result[1].gen_data_norm, name).shape[1] = NMember
                 /\ \A s \in 0..(rb.n_forward_steps - 1) :
                       Get(rb.result[1].metrics, StepLossKey(s))
                           = loss_obj(MemberMean(OutputTensor(s)), TargetTensor(s + 1))

\* the batch holds the fields and the time entries the data requirements of
\* the rollout name, and no more time entries
MeetsRequirements ==
    LET required == get_data_requirements(stepper, rb.n_forward_steps)
    IN  \A name \in required.names :
            HasKey(rb.data, name) /\ TimeEntries(name) = required.n_timesteps

\* C21: every read of the batch by time index in a rollout of k steps is at
\* an index in 0..k: 0 for the initial input and the prepended initial
\* condition, s + 1 at step s < k for the loss target, the ocean targets and
\* the forcing fields, each read once in every step of a returned rollout; a
\* batch with the k + 1 time entries get_data_requirements(k) asks for raises
\* no IndexError and no ValueError.
C21_TimeReads ==
    LET k == rb.n_forward_steps
    IN  /\ \A i \in 1..Len(rb.reads) :
              LET r == rb.reads[i]
              IN  /\ r.time_index \in 0..k
                  /\ r.what \in {"input", "initial", "target", "ocean", "forcing"}
                  /\ r.what \in {"input", "initial"} => r.time_index = 0
                  /\ r.what \in {"target", "ocean", "forcing"} =>
                         r.step < k /\ r.time_index = r.step + 1
        /\ rb.pc = "done" =>
              /\ Len(rb.reads) = 2 + k * (IF stepper.ocean # None THEN 3 ELSE 2)
              /\ \A s \in 0..(k - 1) :
                    \A what \in {"target", "forcing"}
                                \cup (IF stepper.ocean # None THEN {"ocean"} ELSE {}) :
                        \E i \in 1..Len(rb.reads) :
                            rb.reads[i].what = what /\ rb.reads[i].step = s
        /\ MeetsRequirements => rb.err \notin {"IndexError", "ValueError"}

\* a rollout with an ocean has returned on a batch of exactly
\* n_forward_steps + 1 time entries, the last of them read
C21_Witness ==
    /\ rb.pc = "done"
    /\ rb.n_forward_steps > 1
    /\ stepper.ocean # None
    /\ MeetsRequirements
    /\ \E i \in 1..Len(rb.reads) :
           rb.reads[i].what = "ocean" /\ rb.reads[i].time_index = rb.n_forward_steps

(***************************************************************************)
(* A ClimateData object in use: constructed over a mapping of the caller,  *)
(* then read and written through its properties                            *)
(***************************************************************************)
\* the accessor calls made on one object
MaxCalls == 2

\* the field names a mapping of the caller holds, in insertion order: the
\* aliases of the pressure, of the latent heat flux and of the precipitation,
\* the advection tendency, the water levels
ViewLayouts ==
    {[ps |-> <<"PS", "PRESsfc">>, lhf |-> <<"LHFLX", "LHTFLsfc">>,
      pr |-> <<"surface_precipitation_rate">>, adv |-> TRUE,
      q |-> <<"specific_total_water_2", "specific_total_water_10", "specific_total_water_1">>],
     [ps |-> <<"PS">>, lhf |-> <<"LHTFLsfc">>, pr |-> <<"PRATEsfc">>, adv |-> TRUE,
      q |-> <<"specific_total_water_1", "specific_total_water_0">>],
     [ps |-> <<"PRESsfc">>, lhf |-> <<>>,
      pr |-> <<"surface_precipitation_rate", "PRATEsfc">>, adv |-> FALSE, q |-> <<>>],
     [ps |-> <<>>, lhf |-> <<"LHFLX">>, pr |-> <<>>, adv |-> TRUE,
      q |-> <<"specific_total_water_b", "specific_total_water_A10", "specific_total_water_a9">>]}

\* the tensor stored under the i-th name of a mapping
ViewTensor(i) == Field(R(10 * i), R(1))

ViewMapping(layout) ==
    LET names == <<"TMP2m">> \o layout.ps \o layout.q \o layout.lhf \o layout.pr
                 \o (IF layout.adv THEN <<"tendency_of_total_water_path_due_to_advection">>
                     ELSE <<>>)
    IN  Tuple([i \in 1..Len(names) |-> [k |-> names[i], v |-> ViewTensor(i)]])

\* the values assigned through a setter
ViewValues == {Field(R(7), R(2))}

\* the properties with a setter that stores the value itself
ScalarProperties ==
    {"surface_pressure", "precipitation_rate", "latent_heat_flux",
     "tendency_of_total_water_path_due_to_advection"}

InitClimateData ==
    \E layout \in ViewLayouts :
        /\ heap = <<ViewMapping(layout)>>
        /\ view = [pc |-> "new", m |-> 1, self |-> None, orig |-> ViewMapping(layout),
                   calls |-> <<>>]
        /\ sg = Idle
        /\ ds = Idle
        /\ metric = Idle
        /\ model = Idle
        /\ corrector = Idle
        /\ cc = Idle
        /\ pk = Idle
        /\ stepper = Idle
        /\ rb = Idle
        /\ ns = Idle
        /\ calls = Idle

\* ClimateData(m)
Construct ==
    /\ view.pc = "new"
    /\ \E r \in {ClimateData(heap, view.m)} :
           /\ heap' = r.heap
           /\ view' = [view EXCEPT !.pc = "ready", !.self = <<r.data>>]
    /\ UNCHANGED <<corrector, cc, pk, stepper, rb, ns, calls, sg, ds, metric, model>>

\* the object's _data
ViewData == heap[view.self[1]]

\* one more accessor call: the property, the value assigned (None for a
\* read), the exception raised, the value returned, _data before and after
Called(op, name, arg, err, out, after) ==
    [view EXCEPT !.calls = Append(@, [op |-> op, name |-> name, arg |-> arg, err |-> err,
                                      out |-> out, before |-> ViewData, after |-> after])]

\* lines 117-119, 152-157, 163-168, 187-192: return self._get(name)
GetProperty ==
    /\ view.pc = "ready"
    /\ Len(view.calls) < MaxCalls
    /\ \E name \in ScalarProperties :
           view' = IF GetFails(ViewData, name)
                   THEN Called("get", name, None, "KeyError", None, ViewData)
                   ELSE Called("get", name, None, "", <<_get(ViewData, name)>>, ViewData)
    /\ UNCHANGED <<heap, corrector, cc, pk, stepper, rb, ns, calls, sg, ds, metric, model>>

\* lines 121-123, 159-161, 170-172, 194-196: self._set(name, value)
SetProperty ==
    /\ view.pc = "ready"
    /\ Len(view.calls) < MaxCalls
    /\ \E name \in ScalarProperties, value \in ViewValues :
           IF GetFails(ViewData, name)
           THEN /\ view' = Called("set", name, <<value>>, "KeyError", None, ViewData)
                /\ heap' = heap
           ELSE \E after \in {_set(ViewData, name, value)} :
                    /\ view' = Called("set", name, <<value>>, "", None, after)
                    /\ heap' = [heap EXCEPT ![view.self[1]] = after]
    /\ UNCHANGED <<corrector, cc, pk, stepper, rb, ns, calls, sg, ds, metric, model>>

\* lines 174-181
GetEvaporationRate ==
    /\ view.pc = "ready"
    /\ Len(view.calls) < MaxCalls
    /\ view' = IF GetFails(ViewData, "latent_heat_flux")
               THEN Called("get", "evaporation_rate", None, "KeyError", None, ViewData)
               ELSE Called("get", "evaporation_rate", None, "",
                           <<evaporation_rate(ViewData)>>, ViewData)
    /\ UNCHANGED <<heap, corrector, cc, pk, stepper, rb, ns, calls, sg, ds, metric, model>>

\* lines 183-185
SetEvaporationRate ==
    /\ view.pc = "ready"
    /\ Len(view.calls) < MaxCalls
    /\ \E value \in ViewValues :
           IF GetFails(ViewData, "latent_heat_flux")
           THEN /\ view' = Called("set", "evaporation_rate", <<value>>, "KeyError", None,
                                  ViewData)
                /\ heap' = heap
           ELSE \E after \in {set_evaporation_rate(ViewData, value)} :
                    /\ view' = Called("set", "evaporation_rate", <<value>>, "", None, after)
                    /\ heap' = [heap EXCEPT ![view.self[1]] = after]
    /\ UNCHANGED <<corrector, cc, pk, stepper, rb, ns, calls, sg, ds, metric, model>>

\* lines 110-115
GetSpecificTotalWater ==
    /\ view.pc = "ready"
    /\ Len(view.calls) < MaxCalls
    /\ view' = IF SpecificTotalWaterFails(ViewData)
               THEN Called("get", "specific_total_water", None, "KeyError", None, ViewData)
               ELSE Called("get", "specific_total_water", None, "",
                           <<specific_total_water(ViewData)>>, ViewData)
    /\ UNCHANGED <<heap, corrector, cc, pk, stepper, rb, ns, calls, sg, ds, metric, model>>

NextClimateData ==
    \/ Construct
    \/ GetProperty
    \/ SetProperty
    \/ GetEvaporationRate
    \/ SetEvaporationRate
    \/ GetSpecificTotalWater

SpecClimateData == InitClimateData /\ [][NextClimateData]_vars

(***************************************************************************)
(* Properties of ClimateData                                               *)
(***************************************************************************)
\* the canonical quantity a property reads and writes
CanonicalOf(name) == IF name = "evaporation_rate" THEN "latent_heat_flux" ELSE name

\* the first alias of the quantity, in declared order, that is a key of data
ResolvedKey(data, name) ==
    LET aliases == CLIMATE_FIELD_NAME_PREFIXES[CanonicalOf(name)]
    IN  aliases[CHOOSE i \in 1..Len(aliases) :
                    /\ HasKey(data, aliases[i])
                    /\ \A j \in 1..(i - 1) : ~HasKey(data, aliases[j])]

\* the tensor a setter call stores
StoredValue(call) ==
    IF call.name = "evaporation_rate"
    THEN TMul(call.arg[1], Scalar(LATENT_HEAT_OF_VAPORIZATION))
    ELSE call.arg[1]

\* the last accessor call was an assignment that returned
Assigned ==
    /\ view.calls # <<>>
    /\ view.calls[Len(view.calls)].op = "set"
    /\ view.calls[Len(view.calls)].err = ""

LastCall == view.calls[Len(view.calls)]

\* C11 as stated: after an assignment through a setter the caller's own
\* mapping m holds the new value under the resolved alias key.
C11_CallersMappingWritten ==
    Assigned =>
        Get(heap[view.m], ResolvedKey(LastCall.before, LastCall.name)) = StoredValue(LastCall)

\* C11 amended: ClimateData wraps a copy of the mapping (dict(climate_data));
\* after an assignment through a setter the object's own mapping (its data
\* property) holds the new value under the resolved alias key, and the
\* caller's mapping m holds exactly the items it held at construction.
C11_CopyWritten ==
    view.pc = "ready" =>
        /\ view.self[1] # view.m
        /\ heap[view.m] = view.orig
        /\ Assigned =>
               Get(ViewData, ResolvedKey(LastCall.before, LastCall.name))
                   = StoredValue(LastCall)

\* an assignment through a setter returned and changed the object's mapping
C11_Witness ==
    /\ Assigned
    /\ ViewData # view.orig

(***************************************************************************)
(* One Corrector shared by the calls of two batches, their stages          *)
(* interleaved in any order                                                *)
(***************************************************************************)
\* the arguments of the calls sharing the Corrector
SharedArguments ==
    {<<InputState(FullLayout), StateDict(l, ps, [k \in 1..NLevel |-> Field(R(1), R(2))],
                                         Field(R(8), R(4)), Field(Rat(1, 4), Rat(1, 4)),
                                         Field(Rat(1, 2), Rat(1, 2)))>> :
        ps \in PsChoices, l \in {m \in Layouts : m.q /\ m.adv /\ m.pr # "" /\ m.lhf # ""
                                                   /\ Len(m.ps) < 2}}

SharedConfigs ==
    {c \in CorrectorConfigs :
        c.moisture_budget_correction \in {"None", "advection_and_evaporation"}}

\* the outcome of a call made alone, on a heap of its own: the error raised and
\* the state returned
Alone(self, args) ==
    With(Corrector_call(self, args, 1, 2), LAMBDA r :
        [err |-> r.err, value |-> IF r.err = "" THEN <<r.heap[r.data]>> ELSE None])

InitShared ==
    \E config \in SharedConfigs, a \in SharedArguments, b \in SharedArguments :
        /\ a # b
        /\ corrector = [config |-> config, area |-> CHOOSE area \in AreaChoices :
                                                        area.data[1] # area.data[NLat * NLon],
                        sigma_coordinates |-> SigmaCoordinates]
        /\ heap = <<a[1], a[2], b[1], b[2]>>
        /\ calls = [i \in 1..2 |->
                       [pc |-> "conserve_dry_air", input_data |-> 2 * i - 1, arg |-> 2 * i,
                        gen_data |-> 2 * i, err |-> "", self |-> corrector,
                        orig |-> IF i = 1 THEN a ELSE b,
                        alone |-> Alone(corrector, IF i = 1 THEN a ELSE b)]]
        /\ sg = Idle
        /\ ds = Idle
        /\ metric = Idle
        /\ model = Idle
        /\ cc = Idle
        /\ pk = Idle
        /\ stepper = Idle
        /\ rb = Idle
        /\ view = Idle
        /\ ns = Idle

\* one stage of call i, then the line next
SharedStage(i, name, next) ==
    /\ calls[i].pc = name
    /\ \E r \in {CASE name = "conserve_dry_air" ->
                      DryAirStage(corrector, heap, calls[i].input_data, calls[i].gen_data)
               [] name = "zero_global_mean_moisture_advection" ->
                      AdvectionStage(corrector, heap, calls[i].gen_data)
               [] name = "moisture_budget_correction" ->
                      MoistureStage(corrector, heap, calls[i].input_data,
                                    calls[i].gen_data)} :
           /\ heap' = r.heap
           /\ calls' = IF r.err # ""
                       THEN [calls EXCEPT ![i].pc = "raised", ![i].err = r.err]
                       ELSE [calls EXCEPT ![i].pc = next, ![i].gen_data = r.data]
    /\ UNCHANGED <<corrector, cc, pk, stepper, rb, view, ns, sg, ds, metric, model>>

SharedConserveDryAir ==
    \E i \in 1..2 : SharedStage(i, "conserve_dry_air", "zero_global_mean_moisture_advection")

SharedZeroGlobalMeanMoistureAdvection ==
    \E i \in 1..2 :
        SharedStage(i, "zero_global_mean_moisture_advection", "moisture_budget_correction")

SharedMoistureBudgetCorrection ==
    \E i \in 1..2 : SharedStage(i, "moisture_budget_correction", "return")

SharedReturnGenData ==
    \E i \in 1..2 :
        /\ calls[i].pc = "return"
        /\ calls' = [calls EXCEPT ![i].pc = "done"]
        /\ UNCHANGED <<heap, corrector, cc, pk, stepper, rb, view, ns, sg, ds, metric, model>>

NextShared ==
    \/ SharedConserveDryAir
    \/ SharedZeroGlobalMeanMoistureAdvection
    \/ SharedMoistureBudgetCorrection
    \/ SharedReturnGenData

SpecShared == InitShared /\ [][NextShared]_vars

(***************************************************************************)
(* Properties of the shared Corrector                                      *)
(***************************************************************************)
\* C12: while the calls of two batches run interleaved on one Corrector, the
\* configuration, the area weights and the sigma coordinates stay as they
\* were, the input-state mapping and the generated-state mapping of each
\* caller hold the items they held at the call, and each call returns the
\* state, or raises the error, of the same call made alone.
C12_PureCall ==
    \A i \in 1..2 :
        /\ corrector = calls[i].self
        /\ heap[calls[i].input_data] = calls[i].orig[1]
        /\ heap[calls[i].arg] = calls[i].orig[2]
        /\ calls[i].pc = "done" =>
               /\ calls[i].alone.err = ""
               /\ heap[calls[i].gen_data] = calls[i].alone.value[1]
        /\ calls[i].pc = "raised" => calls[i].alone.err = calls[i].err

\* both calls returned corrected states, the second one having started
\* before the first one returned
C12_Witness ==
    /\ calls[1].pc = "done"
    /\ calls[2].pc = "done"
    /\ calls[1].gen_data > calls[2].gen_data
    /\ calls[2].gen_data > 5
    /\ heap[calls[1].gen_data] # calls[1].orig[2]
    /\ heap[calls[1].gen_data] # heap[calls[2].gen_data]

\* the aliases of the quantity of a property that are keys of data
AliasesPresent(data, name) ==
    {a \in Range(CLIMATE_FIELD_NAME_PREFIXES[CanonicalOf(name)]) : HasKey(data, a)}

\* the tensor a getter call returns for the tensor stored
ReadValue(call, stored) ==
    IF call.name = "evaporation_rate"
    THEN TDiv(stored, Scalar(LATENT_HEAT_OF_VAPORIZATION))
    ELSE stored

\* C13: every getter call of a scalar quantity returns the value stored under
\* the first alias, in declared order, that is a key of the mapping; every
\* setter call overwrites the value of exactly that key; with no alias among
\* the keys both raise KeyError; no setter call adds, removes or moves a key.
C13_AliasResolution ==
    \A i \in 1..Len(view.calls) :
        LET call == view.calls[i]
        IN  call.name # "specific_total_water" =>
                /\ Keys(call.after) = Keys(call.before)
                /\ IF AliasesPresent(call.before, call.name) = {}
                   THEN call.err = "KeyError" /\ call.after = call.before
                   ELSE LET key == ResolvedKey(call.before, call.name)
                        IN  /\ call.err = ""
                            /\ call.op = "get" =>
                                   /\ call.out = <<ReadValue(call, Get(call.before, key))>>
                                   /\ call.after = call.before
                            /\ call.op = "set" =>
                                   /\ Get(call.after, key) = StoredValue(call)
                                   /\ \A k \in KeySet(call.before) \ {key} :
                                          Get(call.after, k) = Get(call.before, k)

\* a read and an assignment of a quantity two aliases of which are keys, the
\* alias declared first stored after the other one; and a failed assignment
C13_Witness ==
    /\ Len(view.calls) = 2
    /\ view.calls[1].op = "set" /\ view.calls[1].name = "surface_pressure"
    /\ view.calls[2].op = "get" /\ view.calls[2].name = "surface_pressure"
    /\ view.calls[2].err = ""
    /\ Cardinality(AliasesPresent(view.calls[1].before, "surface_pressure")) = 2
    /\ Keys(view.orig)[2] = "PS"

\* an assignment of a quantity no alias of which is a key
C13_WitnessNotFound ==
    /\ view.calls # <<>>
    /\ LastCall.op = "set"
    /\ LastCall.err = "KeyError"

\* the keys of data that start with the first declared prefix of the specific
\* total water that any key starts with
WaterNames(data) ==
    LET prefixes == CLIMATE_FIELD_NAME_PREFIXES["specific_total_water"]
        matches(p) == {k \in KeySet(data) : StartsWith(k, prefixes[p])}
        first == CHOOSE p \in 1..Len(prefixes) :
                     matches(p) # {} /\ \A o \in 1..(p - 1) : matches(o) = {}
    IN  IF \A p \in 1..Len(prefixes) : matches(p) = {} THEN {} ELSE matches(first)

\* the level number of a field name "specific_total_water_<n>", -1 without one
LevelNumber(name) ==
    IF \E n \in 0..99 : name = "specific_total_water_" \o ToString(n)
    THEN CHOOSE n \in 0..99 : name = "specific_total_water_" \o ToString(n)
    ELSE -1

\* C14: a read of specific_total_water raises KeyError when no key starts with
\* a declared prefix; otherwise it returns a tensor with one trailing level
\* per key that starts with the first matching prefix, every level the tensor
\* of one of these keys, and keys with level numbers in the order of the
\* numbers (level 2 before level 10).
C14_SpecificTotalWater ==
    \A i \in 1..Len(view.calls) :
        LET call  == view.calls[i]
            names == WaterNames(call.before)
            n     == Cardinality(names)
        IN  call.name = "specific_total_water" =>
                /\ call.after = call.before
                /\ IF names = {} THEN call.err = "KeyError"
                   ELSE /\ call.err = ""
                        /\ call.out[1].shape = GridShape \o <<n>>
                        /\ \E level \in [names -> 0..(n - 1)] :
                              /\ \A x \in names :
                                    Select(call.out[1], -1, level[x]) = Get(call.before, x)
                              /\ \A x, y \in names : x # y => level[x] # level[y]
                              /\ \A x, y \in names :
                                    (LevelNumber(x) >= 0 /\ LevelNumber(x) < LevelNumber(y))
                                        => level[x] < level[y]

\* a read over the levels 2, 10 and 1, stored in this order
C14_Witness ==
    /\ view.calls # <<>>
    /\ LastCall.name = "specific_total_water"
    /\ LastCall.err = ""
    /\ {LevelNumber(x) : x \in WaterNames(LastCall.before)} = {1, 2, 10}

\* a read with no level stored
C14_WitnessNotFound ==
    /\ view.calls # <<>>
    /\ LastCall.name = "specific_total_water"
    /\ LastCall.err = "KeyError"

(***************************************************************************)
(* natural_sort called on a list of names                                  *)
(***************************************************************************)
\* the longest list sorted
MaxSortLen == 3

SortNames == {"a2", "a11", "a1", "A10", "b", "x", "~", "~1"}

InitNaturalSort ==
    \E n \in 0..MaxSortLen :
        \E alist \in [1..n -> SortNames] :
            /\ ns = [pc |-> "call", alist |-> alist, result |-> None, err |-> ""]
            /\ heap = <<>>
            /\ sg = Idle
            /\ ds = Idle
            /\ metric = Idle
            /\ model = Idle
            /\ corrector = Idle
            /\ cc = Idle
            /\ pk = Idle
            /\ stepper = Idle
            /\ rb = Idle
            /\ view = Idle
            /\ calls = Idle

\* lines 28-45
NaturalSort ==
    /\ ns.pc = "call"
    /\ ns' = IF NaturalSortTypeError(ns.alist)
             THEN [ns EXCEPT !.pc = "raised", !.err = "TypeError"]
             ELSE [ns EXCEPT !.pc = "done", !.result = <<natural_sort(ns.alist)>>]
    /\ UNCHANGED <<heap, corrector, cc, pk, stepper, rb, view, calls, sg, ds, metric, model>>

NextNaturalSort == NaturalSort

SpecNaturalSort == InitNaturalSort /\ [][NextNaturalSort]_vars

(***************************************************************************)
(* Properties of natural_sort                                              *)
(***************************************************************************)
\* the number of positions of a list that hold x
Count(list, x) == Cardinality({i \in 1..Len(list) : list[i] = x})

\* a name that is letters followed by one decimal number
IsNumbered(name) ==
    \E p \in {"a", "A", "b", "x"}, n \in 0..99 : name = p \o ToString(n)

NumberedPrefix(name) ==
    CHOOSE p \in {"a", "A", "b", "x"} : \E n \in 0..99 : name = p \o ToString(n)

NumberOf(name) == CHOOSE n \in 0..99 : name = NumberedPrefix(name) \o ToString(n)

\* C15: natural_sort returns for every list of strings, never raising, a
\* permutation of the list in which names that differ only in their number
\* (the letters compared without case) stand in the order of the numbers;
\* natural_sort(["a2", "a11", "a1"]) = ["a1", "a2", "a11"].
C15_NaturalSort ==
    ns.pc # "call" =>
        /\ ns.err = ""
        /\ ns.pc = "done"
        /\ LET result == ns.result[1]
           IN  /\ Len(result) = Len(ns.alist)
               /\ \A x \in SortNames : Count(result, x) = Count(ns.alist, x)
               /\ \A i, j \in 1..Len(result) :
                      (/\ i < j
                       /\ IsNumbered(result[i]) /\ IsNumbered(result[j])
                       /\ Lower(NumberedPrefix(result[i])) = Lower(NumberedPrefix(result[j])))
                          => NumberOf(result[i]) <= NumberOf(result[j])
               /\ ns.alist = <<"a2", "a11", "a1">> => result = <<"a1", "a2", "a11">>

(***************************************************************************)
(* get_sigma_coordinates (_xarray.py)                                      *)
(***************************************************************************)
RECURSIVE WithoutUnderscores(_)
WithoutUnderscores(text) ==
    IF Len(text) = 0 THEN text
    ELSE IF SubSeq(text, 1, 1) = "_" THEN WithoutUnderscores(SubSeq(text, 2, Len(text)))
    ELSE SubSeq(text, 1, 1) \o WithoutUnderscores(SubSeq(text, 2, Len(text)))

\* the texts int() reads over the Alphabet: decimal digits, single underscores
\* between them
IntLiteral(text) ==
    /\ Len(text) > 0
    /\ \A i \in 1..Len(text) :
           \/ IsUnicodeDigitChar(SubSeq(text, i, i))
           \/ /\ SubSeq(text, i, i) = "_"
              /\ 1 < i /\ i < Len(text)
              /\ IsUnicodeDigitChar(SubSeq(text, i - 1, i - 1))
              /\ IsUnicodeDigitChar(SubSeq(text, i + 1, i + 1))

\* int(text)
IntOf(text) == ParseInt(WithoutUnderscores(text), 0)

\* {int(v[3:]): ds[v].values for v in ds.variables if v.startswith(prefix)}:
\* ValueError of int, a repeated level keeps its last value
RECURSIVE LevelMapping(_, _, _)
LevelMapping(variables, prefix, mapping) ==
    IF variables = <<>> THEN [err |-> "", value |-> mapping]
    ELSE IF ~StartsWith(Head(variables).k, prefix)
    THEN LevelMapping(Tail(variables), prefix, mapping)
    ELSE IF ~IntLiteral(SubSeq(Head(variables).k, 4, Len(Head(variables).k)))
    THEN [err |-> "ValueError"]
    ELSE LevelMapping(Tail(variables), prefix,
                      Put(mapping, IntOf(SubSeq(Head(variables).k, 4, Len(Head(variables).k))),
                          Head(variables).v))

\* [mapping[k] for k in sorted(mapping.keys())]
RECURSIVE SortedValues(_)
SortedValues(mapping) ==
    IF mapping = <<>> THEN <<>>
    ELSE LET least == CHOOSE k \in KeySet(mapping) : \A j \in KeySet(mapping) : k <= j
         IN  <<Get(mapping, least)>>
             \o SortedValues(SelectSeq(mapping, LAMBDA item : item.k # least))

\* bk paired with ak by level number, not by position
get_sigma_coordinates_by_level(dset) ==
    LET ak_mapping == LevelMapping(dset, "ak_", <<>>)
        bk_mapping == LevelMapping(dset, "bk_", <<>>)
    IN  IF ak_mapping.err # "" \/ bk_mapping.err # "" THEN [err |-> "ValueError"]
        ELSE IF KeySet(ak_mapping.value) # KeySet(bk_mapping.value)
                \/ ak_mapping.value = <<>>
        THEN [err |-> "ValueError"]
        ELSE [err |-> "", ak |-> SortedValues(ak_mapping.value),
              bk |-> SortedValues(bk_mapping.value)]

get_sigma_coordinates(dset) ==
    LET ak_mapping == LevelMapping(dset, "ak_", <<>>)
        bk_mapping == LevelMapping(dset, "bk_", <<>>)
    IN  IF ak_mapping.err # "" THEN ak_mapping
        ELSE IF bk_mapping.err # "" THEN bk_mapping
        ELSE LET ak_list == SortedValues(ak_mapping.value)
                 bk_list == SortedValues(bk_mapping.value)
             IN  IF Len(ak_list) = 0 \/ Len(bk_list) = 0 THEN [err |-> "ValueError"]
                 ELSE IF Len(ak_list) # Len(bk_list) THEN [err |-> "ValueError"]
                 ELSE [err |-> "", ak |-> ak_list, bk |-> bk_list]

\* the variables a dataset may hold, in the order of the dataset
VariableUniverse ==
    <<"ak_0", "bk_0", "ak_2", "bk_2", "ak_10", "bk_10", "ak_1", "bk_1", "bk_x", "PRESsfc">>

\* the value of a variable tells the variable
VariableValue(name) ==
    R(CHOOSE j \in 1..Len(VariableUniverse) : VariableUniverse[j] = name)

\* the datasets: every subset of the variables
SigmaDatasets ==
    {SelectSeq([j \in 1..Len(VariableUniverse) |->
                   [k |-> VariableUniverse[j], v |-> VariableValue(VariableUniverse[j])]],
               LAMBDA item : item.k \in S) : S \in SUBSET Range(VariableUniverse)}

InitSigma ==
    \E dataset \in SigmaDatasets :
        /\ sg = [pc |-> "call", ds |-> dataset, ak |-> <<>>, bk |-> <<>>, err |-> ""]
        /\ heap = <<>>
        /\ corrector = Idle
        /\ cc = Idle
        /\ pk = Idle
        /\ stepper = Idle
        /\ rb = Idle
        /\ view = Idle
        /\ ns = Idle
        /\ calls = Idle
        /\ ds = Idle
        /\ metric = Idle
        /\ model = Idle

\* lines 36-60
GetSigmaCoordinates ==
    /\ sg.pc = "call"
    /\ \E r \in {get_sigma_coordinates(sg.ds)} :
           sg' = IF r.err # "" THEN [sg EXCEPT !.pc = "raised", !.err = r.err]
                 ELSE [sg EXCEPT !.pc = "done", !.ak = r.ak, !.bk = r.bk]
    /\ UNCHANGED <<heap, corrector, cc, pk, stepper, rb, view, ns, calls, ds, metric, model>>

NextSigma == GetSigmaCoordinates

SpecSigma == InitSigma /\ [][NextSigma]_vars

(***************************************************************************)
(* Properties of get_sigma_coordinates                                     *)
(***************************************************************************)
\* the variable of the dataset a returned value comes from
VariableOf(value) == CHOOSE name \in KeySet(sg.ds) : Get(sg.ds, name) = value

\* the level number in the name of a variable
LevelOf(name) == IntOf(SubSeq(name, 4, Len(name)))

\* C23: get_sigma_coordinates raises ValueError or returns ak and bk of one
\* length, ak[i] from an ak_ variable and bk[i] from a bk_ variable of the
\* same level number, the level numbers ascending as integers.
C23_SigmaCoordinates ==
    /\ sg.pc = "raised" => sg.err = "ValueError"
    /\ sg.pc = "done" =>
           /\ Len(sg.ak) = Len(sg.bk)
           /\ Len(sg.ak) > 0
           /\ \A i \in 1..Len(sg.ak) :
                  /\ StartsWith(VariableOf(sg.ak[i]), "ak_")
                  /\ StartsWith(VariableOf(sg.bk[i]), "bk_")
                  /\ LevelOf(VariableOf(sg.ak[i])) = LevelOf(VariableOf(sg.bk[i]))
           /\ \A i, j \in 1..Len(sg.ak) :
                  i < j => LevelOf(VariableOf(sg.ak[i])) < LevelOf(VariableOf(sg.ak[j]))

(***************************************************************************)
(* XarrayDataset (_xarray.py): windows of time points over several files   *)
(***************************************************************************)
MaxFiles == 3
MaxFileLength == 3
MaxWindow == 4
MaxRepeats == 2

\* a[i] of numpy and Python: a negative index counts from the end
NpIndex(a, i) == IF i < 0 THEN a[Len(a) + i + 1] ELSE a[i + 1]

\* np.array(xs).cumsum()
RECURSIVE cumsum(_)
cumsum(xs) ==
    IF xs = <<>> THEN <<>>
    ELSE LET head == cumsum(SubSeq(xs, 1, Len(xs) - 1))
         IN  Append(head, IF head = <<>> THEN xs[Len(xs)] ELSE head[Len(head)] + xs[Len(xs)])

\* lines 63-69: lengths[p] is len(ds.time) of the file paths[p]
get_cumulative_timesteps(lengths) == cumsum(<<0>> \o lengths)

\* np.searchsorted of a sorted array
searchsorted_left(a, v) == Cardinality({j \in 1..Len(a) : a[j] < v})

searchsorted_right(a, v) == Cardinality({j \in 1..Len(a) : a[j] <= v})

get_file_local_index_left(index, start_indices) ==
    LET file_index == searchsorted_left(start_indices, index) - 1
    IN  [file_index |-> file_index, time_index |-> index - NpIndex(start_indices, file_index)]

\* lines 72-79
get_file_local_index(index, start_indices) ==
    LET file_index == searchsorted_right(start_indices, index) - 1
    IN  [file_index |-> file_index, time_index |-> index - NpIndex(start_indices, file_index)]

\* xs * n of a Python list
RECURSIVE ListTimes(_, _)
ListTimes(xs, n) == IF n <= 0 THEN <<>> ELSE xs \o ListTimes(xs, n - 1)

\* ds["time"][slice(start, start + n_steps)] of the file full_paths[file_idx]:
\* each time point is told by its file and its place in the file
TimeSegment(self, file_idx, start, n_steps) ==
    LET length == NpIndex(self.full_paths, file_idx)
        first == IF start < 0 THEN Max(length + start, 0) ELSE start
        last == IF start + n_steps < 0 THEN length + start + n_steps - 1
                ELSE IF start + n_steps > length THEN length - 1 ELSE start + n_steps - 1
    IN  [j \in 1..Max(last - first + 1, 0) |-> [file |-> file_idx, time |-> first + j - 1]]

\* lines 267-278: the segments of the files input_file_idx..output_file_idx
RECURSIVE Segments(_, _, _, _, _)
Segments(self, i, idxs, input_local_idx, output_local_idx) ==
    IF i >= Len(idxs) THEN [err |-> "", times |-> <<>>, total_steps |-> 0]
    ELSE LET file_idx == idxs[i + 1]
             start == IF i = 0 THEN input_local_idx ELSE 0
             stop == IF i = Len(idxs) - 1 THEN output_local_idx
                     ELSE NpIndex(self.full_paths, file_idx) - 1
             n_steps == stop - start + 1
             segment == TimeSegment(self, file_idx, start, n_steps)
             rest == Segments(self, i + 1, idxs, input_local_idx, output_local_idx)
         IN  IF segment = <<>> THEN [err |-> "IndexError"]
             ELSE IF rest.err # "" THEN rest
             ELSE [err |-> "", times |-> segment \o rest.times,
                   total_steps |-> n_steps + rest.total_steps]

\* lines 258-297; a time-dependent variable is cut as the times are
get_sample_by_time_slice(self, slice_start, slice_stop) ==
    LET input == get_file_local_index(slice_start, self.start_indices)
        output == get_file_local_index(slice_stop - 1, self.start_indices)
        idxs == [j \in 1..Max(output.file_index - input.file_index + 1, 0) |->
                     input.file_index + j - 1]
    IN  IF idxs = <<>> THEN [err |-> "ValueError"]
        ELSE LET cut == Segments(self, 0, idxs, input.time_index, output.time_index)
             IN  IF cut.err # "" THEN cut
                 ELSE [err |-> "", times |-> cut.times, tensors |-> cut.times,
                       total_steps |-> cut.total_steps]

\* lines 255-256
XarrayDataset__getitem__(self, idx) == get_sample_by_time_slice(self, idx, idx + self.n_steps)

\* the time-ordered files of a directory: the number of time points of each
FileLengths == UNION {[1..n -> 1..MaxFileLength] : n \in 1..MaxFiles}

InitXarray ==
    \E lengths \in FileLengths, n_repeats \in 1..MaxRepeats, n_timesteps \in 1..MaxWindow :
        /\ ds = [pc |-> "new", paths |-> lengths, n_repeats |-> n_repeats,
                 n_timesteps |-> n_timesteps]
        /\ heap = <<>>
        /\ corrector = Idle
        /\ cc = Idle
        /\ pk = Idle
        /\ stepper = Idle
        /\ rb = Idle
        /\ view = Idle
        /\ ns = Idle
        /\ calls = Idle
        /\ sg = Idle
        /\ metric = Idle
        /\ model = Idle

\* lines 119-135, 170-176: __init__ with _get_files_stats
XarrayDatasetInit ==
    /\ ds.pc = "new"
    /\ \E full_paths \in {ListTimes(ds.paths, ds.n_repeats)} :
       \E cum_num_timesteps \in {get_cumulative_timesteps(full_paths)} :
           ds' = [pc |-> "ready", full_paths |-> full_paths, n_steps |-> ds.n_timesteps,
                  start_indices |-> SubSeq(cum_num_timesteps, 1, Len(cum_num_timesteps) - 1),
                  total_timesteps |-> cum_num_timesteps[Len(cum_num_timesteps)],
                  n_initial_conditions |->
                      cum_num_timesteps[Len(cum_num_timesteps)] - ds.n_timesteps + 1,
                  item |-> None, local |-> None]
    /\ UNCHANGED <<heap, corrector, cc, pk, stepper, rb, view, ns, calls, sg, metric, model>>

\* dataset[idx] for an idx of range(len(dataset)); item and local hold the
\* outcome of the last call
GetItem ==
    /\ ds.pc = "ready"
    /\ \E idx \in 0..(ds.n_initial_conditions - 1) :
           ds' = [ds EXCEPT !.item = <<[idx |-> idx] @@ XarrayDataset__getitem__(ds, idx)>>,
                            !.local = None]
    /\ UNCHANGED <<heap, corrector, cc, pk, stepper, rb, view, ns, calls, sg, metric, model>>

\* get_file_local_index(index, start_indices) for a time point of the dataset
GetFileLocalIndex ==
    /\ ds.pc = "ready"
    /\ \E index \in 0..(ds.total_timesteps - 1) :
           ds' = [ds EXCEPT !.local =
                      <<[index |-> index] @@ get_file_local_index(index, ds.start_indices)>>,
                            !.item = None]
    /\ UNCHANGED <<heap, corrector, cc, pk, stepper, rb, view, ns, calls, sg, metric, model>>

NextXarray ==
    \/ XarrayDatasetInit
    \/ GetItem
    \/ GetFileLocalIndex

SpecXarray == InitXarray /\ [][NextXarray]_vars

(***************************************************************************)
(* Properties of XarrayDataset                                             *)
(***************************************************************************)
\* the time points of all files one after the other
RECURSIVE AllTimes(_, _)
AllTimes(lengths, file_idx) ==
    IF file_idx >= Len(lengths) THEN <<>>
    ELSE [t \in 1..lengths[file_idx + 1] |-> [file |-> file_idx, time |-> t - 1]]
         \o AllTimes(lengths, file_idx + 1)

\* C24: len(dataset) = total_timesteps - n_steps + 1; dataset[idx] holds the
\* n_steps time points idx..idx+n_steps-1 of the files in order, across file
\* boundaries; get_file_local_index(i) = (f, t) with start_indices[f] + t = i
\* and t inside file f.
C24_Windows ==
    ds.pc = "ready" =>
        /\ ds.n_initial_conditions = Len(AllTimes(ds.full_paths, 0)) - ds.n_steps + 1
        /\ ds.item # None =>
               /\ ds.item[1].err = ""
               /\ Len(ds.item[1].times) = ds.n_steps
               /\ ds.item[1].total_steps = ds.n_steps
               /\ ds.item[1].times = SubSeq(AllTimes(ds.full_paths, 0), ds.item[1].idx + 1,
                                            ds.item[1].idx + ds.n_steps)
               /\ ds.item[1].tensors = ds.item[1].times
        /\ ds.local # None =>
               /\ ds.local[1].file_index \in 0..(Len(ds.full_paths) - 1)
               /\ ds.start_indices[ds.local[1].file_index + 1] + ds.local[1].time_index
                      = ds.local[1].index
               /\ ds.local[1].time_index \in 0..(ds.full_paths[ds.local[1].file_index + 1] - 1)

\* a window over two file boundaries has been read
C24_Witness ==
    /\ ds.pc = "ready"
    /\ ds.item # None
    /\ ds.item[1].err = ""
    /\ ds.item[1].idx > 0
    /\ Cardinality({ds.item[1].times[j].file : j \in 1..Len(ds.item[1].times)}) = 3

\* the first time point of a later file has been located
C24_WitnessLocal ==
    /\ ds.pc = "ready"
    /\ ds.local # None
    /\ ds.local[1].file_index > 0
    /\ ds.local[1].time_index = 0

(***************************************************************************)
(* AreaWeightedReducedMetric (aggregator/inference/reduced.py)             *)
(***************************************************************************)
MaxTimesteps == 3
MaxRecords == 2

\* Tensor.mean(dim=0) of a [batch, time] tensor given by its rows
MeanDim0(rows) ==
    [t \in 1..Len(rows[1]) |-> RDiv(RSum([b \in 1..Len(rows) |-> rows[b][t]]), R(Len(rows)))]

\* self._total[time_slice] = new_value instead of +=
AreaWeightedReducedMetric_record_overwrite(self, rows, i_time_start) ==
    LET new_value == MeanDim0(rows)
        covered(t) == i_time_start < t /\ t <= i_time_start + Len(new_value)
    IN  [self EXCEPT
             !._total = <<[t \in 1..self._n_timesteps |->
                             IF covered(t) THEN new_value[t - i_time_start]
                             ELSE IF self._total = None THEN R(0) ELSE self._total[1][t]]>>,
             !._n_batches = [t \in 1..self._n_timesteps |->
                                IF covered(t) THEN self._n_batches[t] + 1 ELSE self._n_batches[t]]]

\* lines 122-135; rows is compute_metric(target, gen, weights, dim=(-2, -1))
AreaWeightedReducedMetric_record(self, rows, i_time_start) ==
    LET new_value == MeanDim0(rows)
        total == IF self._total = None THEN [t \in 1..self._n_timesteps |-> R(0)]
                 ELSE self._total[1]
        covered(t) == i_time_start < t /\ t <= i_time_start + Len(new_value)
    IN  [self EXCEPT
             !._total = <<[t \in 1..self._n_timesteps |->
                             IF covered(t) THEN RAdd(total[t], new_value[t - i_time_start])
                             ELSE total[t]]>>,
             !._n_batches = [t \in 1..self._n_timesteps |->
                                IF covered(t) THEN self._n_batches[t] + 1 ELSE self._n_batches[t]]]

\* lines 137-141
AreaWeightedReducedMetric_get(self) ==
    IF self._total = None THEN Scalar(NaN)
    ELSE Tensor(<<self._n_timesteps>>,
                [t \in 1..self._n_timesteps |-> RDiv(self._total[1][t], R(self._n_batches[t]))])

\* what compute_metric returns for a batch of 1 or 2 samples over a window
MetricRows(window) ==
    {[b \in 1..batch |-> [t \in 1..window |-> Rat(scale * (2 * t + b), b)]] :
         batch \in 1..2, scale \in {-1, 3}}

\* lines 107-120: __init__
InitMetric ==
    \E n_timesteps \in 1..MaxTimesteps :
        /\ metric = [pc |-> "ready", _total |-> None,
                     _n_batches |-> [t \in 1..n_timesteps |-> 0],
                     _n_timesteps |-> n_timesteps, records |-> <<>>, got |-> None]
        /\ heap = <<>>
        /\ corrector = Idle
        /\ cc = Idle
        /\ pk = Idle
        /\ stepper = Idle
        /\ rb = Idle
        /\ view = Idle
        /\ ns = Idle
        /\ calls = Idle
        /\ sg = Idle
        /\ ds = Idle
        /\ model = Idle

\* record(target, gen, i_time_start) with a window inside [0, n_timesteps)
Record ==
    /\ metric.pc = "ready"
    /\ Len(metric.records) < MaxRecords
    /\ \E i_time_start \in 0..(metric._n_timesteps - 1) :
       \E window \in 1..(metric._n_timesteps - i_time_start) :
       \E rows \in MetricRows(window) :
       \E after \in {AreaWeightedReducedMetric_record(metric, rows, i_time_start)} :
           metric' = [after EXCEPT
                          !.records = Append(metric.records,
                                             [rows |-> rows, i_time_start |-> i_time_start]),
                          !.got = None]
    /\ UNCHANGED <<heap, corrector, cc, pk, stepper, rb, view, ns, calls, sg, ds, model>>

\* get()
MetricGet ==
    /\ metric.pc = "ready"
    /\ metric.got = None
    /\ metric' = [metric EXCEPT !.got = <<AreaWeightedReducedMetric_get(metric)>>]
    /\ UNCHANGED <<heap, corrector, cc, pk, stepper, rb, view, ns, calls, sg, ds, model>>

NextMetric ==
    \/ Record
    \/ MetricGet

SpecMetric == InitMetric /\ [][NextMetric]_vars

(***************************************************************************)
(* Properties of AreaWeightedReducedMetric                                 *)
(***************************************************************************)
\* the record calls whose window covers timestep t (counted from 0)
Covering(t) ==
    {r \in 1..Len(metric.records) :
         /\ metric.records[r].i_time_start <= t
         /\ t < metric.records[r].i_time_start + Len(metric.records[r].rows[1])}

\* the values recorded for timestep t, one for each call of Covering(t)
RECURSIVE RecordedSum(_, _)
RecordedSum(t, r) ==
    IF r > Len(metric.records) THEN R(0)
    ELSE IF r \in Covering(t)
    THEN RAdd(MeanDim0(metric.records[r].rows)[t - metric.records[r].i_time_start + 1],
              RecordedSum(t, r + 1))
    ELSE RecordedSum(t, r + 1)

C25_WitnessEmpty ==
    /\ metric.pc = "ready"
    /\ metric.got # None
    /\ metric.records = <<>>

(***************************************************************************)
(* Inference dropout (utilities/utils.py, models/_base_model.py)           *)
(***************************************************************************)
MaxLayers == 3

\* utils.py line 683
all_dropout_layers ==
    {"Dropout", "Dropout2d", "Dropout3d", "AlphaDropout", "FeatureAlphaDropout", "DropPath"}

\* any([isinstance(m, layer) for layer in all_dropout_layers])
IsDropoutLayer(m) == m.kind \in all_dropout_layers

\* leaves the layers as they are
disable_inference_dropout_kept(modules) == modules

\* utils.py lines 686-692; modules is list(model.modules())
enable_inference_dropout(modules) ==
    [i \in 1..Len(modules) |->
        IF IsDropoutLayer(modules[i]) THEN [modules[i] EXCEPT !.training = TRUE] ELSE modules[i]]

\* utils.py lines 695-700
disable_inference_dropout(modules) ==
    [i \in 1..Len(modules) |->
        IF IsDropoutLayer(modules[i]) THEN [modules[i] EXCEPT !.training = FALSE] ELSE modules[i]]

\* the classes of the layers of a model
LayerKinds == {"Dropout", "DropPath", "Linear", "Dropout1d"}

\* model.modules() of a model in any mix of modes
ModuleLists ==
    UNION {[1..n -> [kind : LayerKinds, training : BOOLEAN]] : n \in 1..MaxLayers}

\* the condition argument: a bool, or a value that is not a bool
Conditions == {[type |-> "bool", value |-> TRUE], [type |-> "bool", value |-> FALSE],
               [type |-> "int", value |-> TRUE]}

InitModel ==
    \E modules \in ModuleLists, condition \in Conditions :
        /\ model = [pc |-> "call", modules |-> modules, condition |-> condition,
                    before |-> modules, inside |-> None, err |-> ""]
        /\ heap = <<>>
        /\ corrector = Idle
        /\ cc = Idle
        /\ pk = Idle
        /\ stepper = Idle
        /\ rb = Idle
        /\ view = Idle
        /\ ns = Idle
        /\ calls = Idle
        /\ sg = Idle
        /\ ds = Idle
        /\ metric = Idle

\* _base_model.py lines 274-280: with model.inference_dropout_scope(condition)
\* up to the yield
EnterScope ==
    /\ model.pc = "call"
    /\ IF model.condition.type # "bool"
       THEN model' = [model EXCEPT !.pc = "raised", !.err = "AssertionError"]
       ELSE \E modules \in {IF model.condition.value
                            THEN Tuple(enable_inference_dropout(model.modules))
                            ELSE model.modules} :
                model' = [model EXCEPT !.pc = "inside", !.modules = modules,
                                       !.inside = <<modules>>]
    /\ UNCHANGED <<heap, corrector, cc, pk, stepper, rb, view, ns, calls, sg, ds, metric>>

\* lines 281-286: the finally clause, run when the body returns or raises
LeaveScope(raises) ==
    /\ model.pc = "inside"
    /\ \E modules \in {IF model.condition.value
                       THEN Tuple(disable_inference_dropout(model.modules))
                       ELSE model.modules} :
           model' = [model EXCEPT !.pc = IF raises THEN "raised" ELSE "left",
                                  !.err = IF raises THEN "Exception" ELSE "",
                                  !.modules = modules]
    /\ UNCHANGED <<heap, corrector, cc, pk, stepper, rb, view, ns, calls, sg, ds, metric>>

BodyReturns == LeaveScope(FALSE)

BodyRaises == LeaveScope(TRUE)

NextModel ==
    \/ EnterScope
    \/ BodyReturns
    \/ BodyRaises

SpecModel == InitModel /\ [][NextModel]_vars

(***************************************************************************)
(* Properties of inference_dropout_scope                                   *)
(***************************************************************************)
\* the scope has been left, by return or by an exception of the body
ScopeLeft == model.pc = "left" \/ (model.pc = "raised" /\ model.err = "Exception")

\* every layer that is not a dropout layer is as before the scope
OthersUntouched ==
    \A i \in 1..Len(model.modules) :
        ~IsDropoutLayer(model.modules[i]) => model.modules[i] = model.before[i]

\* C27: inference_dropout_scope(True) has every dropout layer in training
\* mode inside the scope and in eval mode once the scope is left, by return
\* or by an exception of the body; with False every layer keeps its mode
\* before, inside and after.
C27_DropoutScope ==
    /\ model.pc \in {"inside", "left", "raised"} =>
           /\ Len(model.modules) = Len(model.before)
           /\ OthersUntouched
    /\ model.pc = "inside" /\ model.condition.value =>
           \A i \in 1..Len(model.modules) :
               IsDropoutLayer(model.modules[i]) => model.modules[i].training
    /\ ScopeLeft /\ model.condition.value =>
           /\ \A i \in 1..Len(model.modules) :
                  IsDropoutLayer(model.modules[i]) => ~model.modules[i].training
           /\ \A i \in 1..Len(model.modules) :
                  IsDropoutLayer(model.inside[1][i]) => model.inside[1][i].training
    /\ model.pc \in {"inside", "left", "raised"} /\ model.condition.type = "bool"
           /\ ~model.condition.value =>
           /\ model.modules = model.before
           /\ model.pc # "inside" => model.inside[1] = model.before

\* the body raised in a scope that had switched an eval dropout layer on
C27_Witness ==
    /\ model.pc = "raised"
    /\ model.err = "Exception"
    /\ model.condition.value
    /\ \E i \in 1..Len(model.before) :
           IsDropoutLayer(model.before[i]) /\ ~model.before[i].training
    /\ \E i \in 1..Len(model.before) :
           ~IsDropoutLayer(model.before[i]) /\ model.before[i].training

\* a scope with condition False has been left
C27_WitnessFalse ==
    /\ model.pc = "left"
    /\ model.condition.type = "bool"
    /\ ~model.condition.value
    /\ \E i \in 1..Len(model.before) :
           IsDropoutLayer(model.before[i]) /\ model.before[i].training

(***************************************************************************)
(* Packer.get_state and Packer.from_state (packer.py)                      *)
(***************************************************************************)
\* self.name of an object given by its attributes
GetAttr(self, name) ==
    IF name \in DOMAIN self THEN [err |-> "", value |-> self[name]]
    ELSE [err |-> "AttributeError"]

\* lines 56-60
Packer_get_state(self) ==
    IF GetAttr(self, "axis").err # "" THEN GetAttr(self, "axis")
    ELSE [err |-> "", value |-> <<[k |-> "names", v |-> self.names],
                                 [k |-> "axis", v |-> GetAttr(self, "axis").value]>>]

\* lines 62-67
Packer_from_state(state) ==
    IF ~HasKey(state, "names") \/ ~HasKey(state, "axis") THEN [err |-> "KeyError"]
    ELSE Packer(Get(state, "names"), Get(state, "axis"), None, None)

\* the states a caller may hold: names with an axis, with axis None, without axis
GivenStates ==
    {<<[k |-> "names", v |-> names], [k |-> "axis", v |-> axis]>> :
         names \in NameLists, axis \in {None, <<0>>, <<1>>, <<-3>>}}
    \cup {<<[k |-> "names", v |-> names]>> : names \in NameLists}

InitPackerState ==
    \E names \in NameLists, axis \in AxisChoices, axis_pack \in {None, <<0>>, <<-3>>},
       axis_unpack \in {None, <<0>>, <<1>>}, given \in GivenStates :
        /\ Packer(names, axis, axis_pack, axis_unpack).err = ""
        /\ pk = [pc |-> "built", self |-> Packer(names, axis, axis_pack, axis_unpack),
                 given |-> given, state |-> None, restored |-> None, err |-> ""]
        /\ heap = <<>>
        /\ sg = Idle
        /\ ds = Idle
        /\ metric = Idle
        /\ model = Idle
        /\ corrector = Idle
        /\ cc = Idle
        /\ stepper = Idle
        /\ rb = Idle
        /\ view = Idle
        /\ ns = Idle
        /\ calls = Idle

\* p.get_state()
GetState ==
    /\ pk.pc = "built"
    /\ \E r \in {Packer_get_state(pk.self)} :
           pk' = IF r.err # "" THEN [pk EXCEPT !.pc = "raised", !.err = r.err]
                 ELSE [pk EXCEPT !.pc = "state", !.state = <<r.value>>]
    /\ UNCHANGED <<heap, corrector, cc, stepper, rb, view, ns, calls, sg, ds, metric, model>>

\* Packer.from_state(state) with the state of get_state, or with a state the
\* caller holds
FromState ==
    /\ pk.pc \in {"built", "state"}
    /\ \E state \in {IF pk.pc = "state" THEN pk.state[1] ELSE pk.given} :
       \E r \in {Packer_from_state(state)} :
           pk' = IF r.err # "" THEN [pk EXCEPT !.pc = "raised", !.err = r.err]
                 ELSE [pk EXCEPT !.pc = "restored", !.state = <<state>>, !.restored = <<r>>]
    /\ UNCHANGED <<heap, corrector, cc, stepper, rb, view, ns, calls, sg, ds, metric, model>>

NextPackerState ==
    \/ GetState
    \/ FromState

SpecPackerState == InitPackerState /\ [][NextPackerState]_vars

(***************************************************************************)
(* Properties of Packer.get_state and Packer.from_state                    *)
(***************************************************************************)
\* C28: get_state of a built Packer returns a record of its names and axis,
\* and from_state of that record is a Packer with the same names and the
\* same pack and unpack axes.
C28_StateRoundTrip ==
    /\ pk.pc = "raised" => pk.err # "AttributeError"
    /\ pk.pc = "state" =>
           /\ Get(pk.state[1], "names") = pk.self.names
           /\ Packer_from_state(pk.state[1]).err = ""
           /\ Packer_from_state(pk.state[1]).names = pk.self.names
           /\ Packer_from_state(pk.state[1]).axis_pack = pk.self.axis_pack
           /\ Packer_from_state(pk.state[1]).axis_unpack = pk.self.axis_unpack

(***************************************************************************)
(* The advection tendency recomputed by the moisture-budget stage          *)
(***************************************************************************)
\* every value of the tensor t is zero
AllZero(t) == \A i \in 1..Len(t.data) : IsZero(t.data[i])

\* the configuration recomputes the advection and does not ask for the stage
\* that removes its global mean
AdvectionModeAlone ==
    /\ StartsWith(corrector.config.moisture_budget_correction, "advection")
    /\ ~corrector.config.zero_global_mean_moisture_advection

\* C26: in the advection modes the advection tendency the moisture-budget
\* stage returns has the area-weighted global mean zero, given a non-zero
\* global mean of the field it rescales, with or without the stage
\* zero_global_mean_moisture_advection and whatever the advection was before;
\* an advection mode without that stage is a configuration the corrector runs
\* with: it raises for a missing field only.
C26_AdvectionZeroMean ==
    /\ (RanStage("moisture_budget_correction")
        /\ StartsWith(corrector.config.moisture_budget_correction, "advection")) =>
           LET before == Given("moisture_budget_correction")
               after  == Returned("moisture_budget_correction")
               mode   == corrector.config.moisture_budget_correction
           IN  (Finite(_get(before, "surface_pressure"))
                /\ NowhereZero(GlobalMean(RescaledField(mode, before)))) =>
                   /\ AllZero(GlobalMean(_get(after, ADV)))
                   /\ Finite(_get(after, ADV))
    /\ AdvectionModeAlone =>
           /\ ~RanStage("zero_global_mean_moisture_advection")
           /\ cc.pc = "raised" =>
                  /\ cc.err = "KeyError"
                  /\ MissingField(PendingStage, heap[cc.input_data], heap[cc.gen_data])

\* a call without the zero-mean stage has returned an advection tendency of
\* global mean zero, recomputed from one of non-zero global mean
C26_Witness ==
    /\ cc.pc = "done"
    /\ AdvectionModeAlone
    /\ RanStage("moisture_budget_correction")
    /\ Finite(_get(Given("moisture_budget_correction"), "surface_pressure"))
    /\ NowhereZero(GlobalMean(RescaledField(corrector.config.moisture_budget_correction,
                                            Given("moisture_budget_correction"))))
    /\ NowhereZero(GlobalMean(_get(Given("moisture_budget_correction"), ADV)))
    /\ ~AllZero(_get(Returned("moisture_budget_correction"), ADV))
    /\ AllZero(GlobalMean(_get(Returned("moisture_budget_correction"), ADV)))

(***************************************************************************)
(* SingleModuleStepper.run_on_batch (stepper.py): the method that calls    *)
(* the function run_on_batch                                               *)
(***************************************************************************)
\* lines 258-302: the attributes __init__ sets, with the methods and
\* properties of the class (lines 304-464)
StepperAttributes ==
    {"in_packer", "out_packer", "normalizer", "ocean", "module", "_img_shape", "_config",
     "_no_optimization", "_is_distributed", "area", "sigma_coordinates", "loss_obj",
     "_conservation_loss", "_corrector",
     "get_data_requirements", "modules", "run_on_batch", "get_state", "load_state",
     "from_state"}

\* line 525: optimization.set_mode(module) puts the module in the mode of the
\* optimization, or leaves it
set_mode(mode, modules) ==
    IF mode = "keep" THEN modules
    ELSE [i \in 1..Len(modules) |-> [modules[i] EXCEPT !.training = (mode = "train")]]

InitStepperCall ==
    \E enable \in BOOLEAN, modules \in ModuleLists :
        /\ model = [pc |-> "built", attributes |-> StepperAttributes,
                    _config |-> [enable_inference_dropout |-> enable],
                    modules |-> modules, via |-> "", passed |-> None, err |-> ""]
        /\ heap = <<>>
        /\ corrector = Idle
        /\ cc = Idle
        /\ pk = Idle
        /\ stepper = Idle
        /\ rb = Idle
        /\ view = Idle
        /\ ns = Idle
        /\ calls = Idle
        /\ sg = Idle
        /\ ds = Idle
        /\ metric = Idle

\* lines 315-357: the arguments of the call of run_on_batch are evaluated,
\* the last of them self.enable_inference_dropout
StepperRunOnBatch ==
    /\ model.pc = "built"
    /\ model' = IF "enable_inference_dropout" \notin model.attributes
                THEN [model EXCEPT !.pc = "raised", !.err = "AttributeError",
                                   !.via = "method"]
                ELSE [model EXCEPT !.pc = "called", !.via = "method",
                                   !.passed = <<model._config.enable_inference_dropout>>]
    /\ UNCHANGED <<heap, corrector, cc, pk, stepper, rb, view, ns, calls, sg, ds, metric>>

\* lines 525-527 of the function run_on_batch, called by the method or by a
\* caller that passes enable_inference_dropout itself
RunOnBatchSetMode ==
    /\ model.pc \in {"built", "called"}
    /\ \E enable \in IF model.pc = "called" THEN {model.passed[1]} ELSE BOOLEAN :
       \E mode \in {"keep", "train", "eval"} :
       \E modules \in {Tuple(set_mode(mode, model.modules))} :
           model' = [model EXCEPT
                         !.pc = "started",
                         !.via = IF model.pc = "called" THEN "method" ELSE "function",
                         !.passed = <<enable>>,
                         !.modules = IF enable THEN Tuple(enable_inference_dropout(modules))
                                     ELSE modules]
    /\ UNCHANGED <<heap, corrector, cc, pk, stepper, rb, view, ns, calls, sg, ds, metric>>

NextStepperCall ==
    \/ StepperRunOnBatch
    \/ RunOnBatchSetMode

SpecStepperCall == InitStepperCall /\ [][NextStepperCall]_vars

(***************************************************************************)
(* Properties of SingleModuleStepper.run_on_batch                          *)
(***************************************************************************)
\* C30: run_on_batch of a freshly built SingleModuleStepper does not fail
\* before the rollout starts and hands the function the flag
\* enable_inference_dropout of the configuration.
C30_FlagForwarded ==
    model.via = "method" =>
        /\ model.pc # "raised"
        /\ model.passed # None => model.passed[1] = model._config.enable_inference_dropout

(***************************************************************************)
(* run_on_batch with a corrector that conserves dry air                    *)
(***************************************************************************)
\* surface pressure, the levels of specific total water and the field of the
\* ocean are in-names and out-names; DSWRFtoa is a forcing
DryAirOutNames ==
    [k \in 1..NLevel |-> LevelName(k - 1)] \o <<"PRESsfc", "TMP2m">>

DryAirInNames ==
    <<"DSWRFtoa">> \o [k \in 1..(NLevel - 1) |-> LevelName(k - 1)]
    \o <<"PRESsfc", LevelName(NLevel - 1), "TMP2m">>

\* the batches: every field over (sample, time, lat, lon), from one of three
\* families of values
DryAirBatches ==
    {[j \in 1..Len(DryAirInNames) |->
         [k |-> DryAirInNames[j],
          v |-> Tensor(<<NSample, NTime, NLat, NLon>>,
                       [i \in 1..(NSample * NTime * NLat * NLon) |->
                           R(((5 * j + i + offset) % 7) - 3)])]] : offset \in {0, 2, 4}}

\* means and standard deviations: denormalize is the inverse of normalize
DryAirNormalization ==
    [means |-> [name \in Range(DryAirInNames) |-> R(Len(name) % 3)],
     stds  |-> [name \in Range(DryAirInNames) |-> R(1 + (Len(name) % 2))]]

DryAirStepperConfigs ==
    [in_names : {DryAirInNames},
     out_names : {DryAirOutNames},
     normalization : {DryAirNormalization},
     ocean : {None, <<[target_names |-> <<"TMP2m">>]>>},
     builder : {"shift", "half"},
     corrector : {<<[config |-> [conserve_dry_air |-> TRUE,
                                 zero_global_mean_moisture_advection |-> FALSE,
                                 moisture_budget_correction |-> "None"],
                     area |-> area, sigma_coordinates |-> SigmaCoordinates]>> :
                      area \in AreaChoices}]

InitDryAirRollout ==
    \E config \in DryAirStepperConfigs, n_forward_steps \in 0..MaxForwardSteps,
       data \in DryAirBatches :
        /\ stepper = SingleModuleStepper(config)
        /\ rb = [pc |-> "start", data |-> data, n_forward_steps |-> n_forward_steps,
                 step |-> 0, full_data_norm |-> None, full_target_tensor_norm |-> None,
                 input_data_norm |-> None, gen_data_norm |-> <<>>,
                 input_tensor_norm |-> None, target_tensor_norm |-> None,
                 gen_tensor_norm |-> None, gen_norm |-> None, gen_data |-> None,
                 input_data |-> None, loss |-> R(0), metrics |-> <<>>, result |-> None,
                 err |-> "", trace |-> <<>>, reads |-> <<>>]
        /\ heap = <<>>
        /\ sg = Idle
        /\ ds = Idle
        /\ metric = Idle
        /\ model = Idle
        /\ corrector = Idle
        /\ cc = Idle
        /\ pk = Idle
        /\ view = Idle
        /\ ns = Idle
        /\ calls = Idle

SpecDryAirRollout == InitDryAirRollout /\ [][NextRollout]_vars

(***************************************************************************)
(* Properties of the rollout with conserved dry air                        *)
(***************************************************************************)
\* the generated state at one time entry of the returned series
GeneratedAt(t) ==
    [i \in 1..Len(rb.result[1].gen_data) |->
        [k |-> rb.result[1].gen_data[i].k,
         v |-> Select(rb.result[1].gen_data[i].v, time_dim, t)]]

\* the area-weighted global mean of the dry-air surface pressure of a state
RolloutGlobalMeanDryAir(data) ==
    weighted_mean(ClimateData_surface_pressure_due_to_dry_air(
                      data, stepper._corrector[1].sigma_coordinates),
                  stepper._corrector[1].area)

\* 1 - sum_k(bk_diff * q_k) is non-zero in every column of the state the
\* network generated in every forward step
DenominatorsNonZero ==
    \A step \in 0..(rb.n_forward_steps - 1) :
        NowhereZero(TSub(Scalar(R(1)),
                         SumLast(TMul(DiffLast(stepper._corrector[1].sigma_coordinates.bk),
                                      specific_total_water(TraceOf("denormalize", step).out)),
                                 1)))

\* the dry-air global mean of every time entry is that of the initial condition
DryAirConstant ==
    \A t \in 0..rb.n_forward_steps :
        RolloutGlobalMeanDryAir(GeneratedAt(t)) = RolloutGlobalMeanDryAir(GeneratedAt(0))

\* C29 as stated: for any network outputs the global-mean dry-air surface
\* pressure of the generated series is the same at every time entry.
C29_DryAirAnyOutputs ==
    (rb.pc = "done" /\ stepper._corrector # None
     /\ stepper._corrector[1].config.conserve_dry_air) => DryAirConstant

\* C29: in a returned rollout with conserve_dry_air, the global-mean dry-air
\* surface pressure of the generated series is at every time entry that of
\* the initial condition, when 1 - sum_k(bk_diff * q_k) is non-zero in every
\* column of every generated state.
C29_DryAirRollout ==
    (rb.pc = "done" /\ stepper._corrector # None
     /\ stepper._corrector[1].config.conserve_dry_air /\ DenominatorsNonZero)
        => DryAirConstant

\* a rollout of two steps with an ocean has returned, the surface pressure
\* changed by the corrector in the second step
C29_Witness ==
    /\ rb.pc = "done"
    /\ stepper._corrector # None
    /\ stepper._corrector[1].config.conserve_dry_air
    /\ stepper.ocean # None
    /\ rb.n_forward_steps = 2
    /\ DenominatorsNonZero
    /\ _get(TraceOf("corrector", 1).out, "surface_pressure")
           # _get(TraceOf("corrector", 1).arg, "surface_pressure")

====
